---- MODULE Spec2Model ----
(***************************************************************************)
(* A model of the car-park backend's service layer: reservations, parking  *)
(* sessions, payments, discounts, rates and the fee calculator, as         *)
(* implemented in src/src/services.                                        *)
(*                                                                         *)
(* Time is counted in minutes.  Money is counted in units of 1/100 cent    *)
(* (1 dollar = 10000 units), so that percentages of cent amounts and the   *)
(* EV rate (price * power * 0.8) stay integers.  Row ids are positions in  *)
(* the sequences that model the tables; 0 models None for ids.             *)
(***************************************************************************)
EXTENDS Integers, Sequences, FiniteSets, TLC

\* --------------------------------------------------------------- bounds
MaxReservations == 2
MaxSessions == 2
MaxPayments == 2
MaxTicks == 1
MaxArrivals == 1
MaxCharging == 1
MaxDeskSessions == 1
MaxMemberships == 3
MaxMonths == 2
MaxPlugIns == 3
ChargeHorizon == 350

\* ------------------------------------------------------ program constants
NONE == 0
NoTime == -1
Unset == -2
NoLimit == -1
DefaultHourlyAmount == 50000
Level2Surcharge == 2500
DefaultVehicleTypeId == 1

\* ------------------------------------------------------------ input sets
SpaceIds == {1, 2}
Plates == {1, 2}
TickMinutes == {45}
Hours == {0, 60, 120}
Codes == {"save", "FIX"}
Tenders == {0, 25000, 50000}

VARIABLES
    spaces,         \* parking_spaces: id -> [status, zone_id, is_ev_charging]
    stations,       \* ev_charging_stations by space id (NoStation when none)
    vehicles,       \* vehicles: plate -> vehicle_type_id (NONE: not registered)
    rates,          \* rates table: a sequence of Rate rows
    discounts,      \* discounts table: a sequence of Discount rows
    reservations,   \* reservations table
    sessions,       \* parking_sessions table
    payments,       \* payments table
    charging,       \* charging_sessions table
    memberships,    \* memberships table
    now,            \* the clock, in minutes
    last,           \* the response to the last request
    txn             \* requests in flight (between their awaits), per client

vars == <<spaces, stations, vehicles, rates, discounts, reservations, sessions,
          payments, charging, memberships, now, last, txn>>

store == <<spaces, stations, vehicles, rates, discounts, reservations, sessions,
           payments, charging, memberships>>

\* ------------------------------------------------------------- helpers
Max2(a, b) == IF a >= b THEN a ELSE b
Min2(a, b) == IF a <= b THEN a ELSE b

Ids(table) == 1..Len(table)

\* str.upper() on the discount codes of the model
Upper(code) ==
    CASE code = "save" -> "SAVE"
      [] code = "fix" -> "FIX"
      [] OTHER -> code

\* round(x, 2): to whole cents, ties to even
Round2(x) ==
    LET q == x \div 100
        r == x % 100
    IN  IF r < 50 THEN q * 100
        ELSE IF r > 50 THEN (q + 1) * 100
        ELSE IF q % 2 = 0 THEN q * 100 ELSE (q + 1) * 100

NoRate == [id |-> NONE]
NoStation == [id |-> NONE]
NoTxn == [op |-> "idle"]

\* No FeeCalculation in a response.
NoFee == [duration_minutes |-> 0, base_fee |-> 0, total |-> 0, breakdown |-> << >>]

Response(op, result) ==
    [op |-> op, result |-> result, message |-> "", id |-> NONE, amount |-> 0,
     fee |-> NoFee, available_spaces |-> {},
     is_paid |-> FALSE, can_exit |-> FALSE, is_valid |-> FALSE]

\* A request that raises: get_db rolls the unit of work back, the store is unchanged.
Reject(op, result) ==
    /\ last' = Response(op, result)
    /\ UNCHANGED <<store, now, txn>>

RejectWith(op, result, message) ==
    /\ last' = [Response(op, result) EXCEPT !.message = message]
    /\ UNCHANGED <<store, now, txn>>

\* ------------------------------------------------------- rate resolution
\* The rows base_query selects: active, of the rate type, effective at t.
EffectiveRates(rate_type, t) ==
    {i \in Ids(rates) :
        /\ rates[i].is_active
        /\ rates[i].effective_from <= t
        /\ (rates[i].effective_to = NoTime \/ rates[i].effective_to >= t)
        /\ rates[i].rate_type = rate_type}

\* order_by(effective_from.desc()).limit(1): a row with the latest effective_from;
\* the store picks among equal ones.
FirstByEffectiveFrom(S) ==
    {rates[i] : i \in {j \in S : \A k \in S : rates[k].effective_from <= rates[j].effective_from}}

\* A variant that prefers a zone-only rate to a vehicle-type-only rate.
GetApplicableRateZoneFirst(vehicle_type_id, zone_id, rate_type, t) ==
    LET base == EffectiveRates(rate_type, t)
        exact == IF vehicle_type_id # NONE /\ zone_id # NONE
                 THEN {i \in base : rates[i].vehicle_type_id = vehicle_type_id
                                    /\ rates[i].zone_id = zone_id}
                 ELSE {}
        byType == IF vehicle_type_id # NONE
                  THEN {i \in base : rates[i].vehicle_type_id = vehicle_type_id
                                     /\ rates[i].zone_id = NONE}
                  ELSE {}
        byZone == IF zone_id # NONE
                  THEN {i \in base : rates[i].vehicle_type_id = NONE
                                     /\ rates[i].zone_id = zone_id}
                  ELSE {}
        generic == {i \in base : rates[i].vehicle_type_id = NONE /\ rates[i].zone_id = NONE}
    IN  IF exact # {} THEN FirstByEffectiveFrom(exact)
        ELSE IF byZone # {} THEN FirstByEffectiveFrom(byZone)
        ELSE IF byType # {} THEN FirstByEffectiveFrom(byType)
        ELSE IF generic # {} THEN FirstByEffectiveFrom(generic)
        ELSE {NoRate}

\* The rows get_applicable_rate can return ({NoRate}: it returns None).
GetApplicableRate(vehicle_type_id, zone_id, rate_type, t) ==
    LET base == EffectiveRates(rate_type, t)
        exact == IF vehicle_type_id # NONE /\ zone_id # NONE
                 THEN {i \in base : rates[i].vehicle_type_id = vehicle_type_id
                                    /\ rates[i].zone_id = zone_id}
                 ELSE {}
        byType == IF vehicle_type_id # NONE
                  THEN {i \in base : rates[i].vehicle_type_id = vehicle_type_id
                                     /\ rates[i].zone_id = NONE}
                  ELSE {}
        byZone == IF zone_id # NONE
                  THEN {i \in base : rates[i].vehicle_type_id = NONE
                                     /\ rates[i].zone_id = zone_id}
                  ELSE {}
        generic == {i \in base : rates[i].vehicle_type_id = NONE /\ rates[i].zone_id = NONE}
    IN  IF exact # {} THEN FirstByEffectiveFrom(exact)
        ELSE IF byType # {} THEN FirstByEffectiveFrom(byType)
        ELSE IF byZone # {} THEN FirstByEffectiveFrom(byZone)
        ELSE IF generic # {} THEN FirstByEffectiveFrom(generic)
        ELSE {NoRate}

\* A call of get_applicable_rate at the current time; the answer is the id of the
\* row returned (NONE: no row).
ResolveRate(vehicle_type_id, zone_id, rate_type) ==
    \E rate \in GetApplicableRate(vehicle_type_id, zone_id, rate_type, now) :
        /\ last' = [Response("get_applicable_rate", "ok") EXCEPT
                        !.id = rate.id,
                        !.amount = IF rate = NoRate THEN 0 ELSE rate.amount]
        /\ UNCHANGED <<store, now, txn>>

\* ---------------------------------------------------------- fee calculator
\* A variant that knows no window across midnight.
IsPeakSameDay(hourly_rate, end_time) ==
    /\ hourly_rate # NoRate
    /\ hourly_rate.peak_start_time # NoTime
    /\ hourly_rate.peak_end_time # NoTime
    /\ hourly_rate.peak_start_time <= end_time % 1440
    /\ end_time % 1440 <= hourly_rate.peak_end_time

\* peak_start <= current_time <= peak_end, or the window that spans midnight
IsPeak(hourly_rate, end_time) ==
    /\ hourly_rate # NoRate
    /\ hourly_rate.peak_start_time # NoTime
    /\ hourly_rate.peak_end_time # NoTime
    /\ LET current_time == end_time % 1440
           peak_start == hourly_rate.peak_start_time
           peak_end == hourly_rate.peak_end_time
       IN  IF peak_start <= peak_end
           THEN peak_start <= current_time /\ current_time <= peak_end
           ELSE current_time >= peak_start \/ current_time <= peak_end

\* A variant that bills whole hours only, rounding down.
BilledHoursFloor(duration_minutes) == Max2(1, duration_minutes \div 60)

\* hours = max(1, (duration_minutes + 59) // 60)
BilledHours(duration_minutes) == Max2(1, (duration_minutes + 59) \div 60)

\* A variant whose grace period ends one minute early.
WithinGraceStrict(grace_period, duration_minutes) ==
    grace_period # 0 /\ duration_minutes < grace_period

\* if grace_period and duration_minutes <= grace_period
WithinGrace(grace_period, duration_minutes) ==
    grace_period # 0 /\ duration_minutes <= grace_period

\* A variant that bills the remaining hours of a started day in full.
RemainingFeeUncapped(effective_hourly_rate, remaining_hours, daily_max) ==
    effective_hourly_rate * remaining_hours

\* remaining_fee = min(effective_hourly_rate * remaining_hours, daily_max)
RemainingFee(effective_hourly_rate, remaining_hours, daily_max) ==
    Min2(effective_hourly_rate * remaining_hours, daily_max)

\* A variant that charges a LEVEL2 station no surcharge.
EvHourlyRateNoSurcharge(station) ==
    (station.price_per_kwh * station.power_kw * 8) \div 10

\* ev_rate * power_kw * 0.8, with 0.25 added to the price of a LEVEL2 charger
EvHourlyRate(station) ==
    LET ev_rate == IF station.charger_type = "level2"
                   THEN station.price_per_kwh + Level2Surcharge
                   ELSE station.price_per_kwh
    IN  (ev_rate * station.power_kw * 8) \div 10

\* A variant that bills nothing when no hourly rate is configured.
BaseHourlyAmountOrFree(hourly_rate) ==
    IF hourly_rate # NoRate THEN hourly_rate.amount ELSE 0

\* base_hourly_amount = float(hourly_rate.amount) if hourly_rate else 5.0
BaseHourlyAmount(hourly_rate) ==
    IF hourly_rate # NoRate THEN hourly_rate.amount ELSE DefaultHourlyAmount

\* A variant whose parking line is already at the peak rate, with the surcharge
\* on top of it.
PeakItemsOnTop(base_hourly_amount, effective_hourly_rate, hours) ==
    << [description |-> "Parking", amount |-> effective_hourly_rate * hours],
       [description |-> "Peak hour surcharge",
        amount |-> (effective_hourly_rate - base_hourly_amount) * hours] >>

\* The two line items of a fee at the peak rate: the hours at the base rate and
\* the surcharge.
PeakItems(base_hourly_amount, effective_hourly_rate, hours) ==
    << [description |-> "Parking", amount |-> base_hourly_amount * hours],
       [description |-> "Peak hour surcharge",
        amount |-> (effective_hourly_rate - base_hourly_amount) * hours] >>

\* The body of calculate_fee once the session, the rates and the station are read.
FeeCalculation(duration_minutes, end_time, hourly_rate, daily_rate, station) ==
    LET grace_period == IF hourly_rate # NoRate THEN hourly_rate.grace_period_minutes ELSE 0
        base_hourly_amount == BaseHourlyAmount(hourly_rate)
        hours == BilledHours(duration_minutes)
        is_peak == IsPeak(hourly_rate, end_time)
        peak_multiplier == IF is_peak /\ hourly_rate.peak_multiplier # 0
                           THEN hourly_rate.peak_multiplier ELSE 100
        effective_hourly_rate == (base_hourly_amount * peak_multiplier) \div 100
        base_fee == effective_hourly_rate * hours
        hourly_items ==
            IF is_peak /\ peak_multiplier # 100
            THEN PeakItems(base_hourly_amount, effective_hourly_rate, hours)
            ELSE << [description |-> "Parking", amount |-> base_fee] >>
        extra == IF station # NoStation
                 THEN (EvHourlyRate(station) - effective_hourly_rate) * hours ELSE 0
        daily_max == IF daily_rate = NoRate THEN 0
                     ELSE IF extra > 0 THEN daily_rate.amount + extra
                     ELSE daily_rate.amount
        full_days == duration_minutes \div 1440
        remaining_minutes == duration_minutes % 1440
        daily_fee == daily_max * full_days
        remaining_hours == IF remaining_minutes > 0
                           THEN Max2(1, (remaining_minutes + 59) \div 60) ELSE 0
        remaining_fee == IF remaining_hours > 0
                         THEN RemainingFee(effective_hourly_rate, remaining_hours,
                                           daily_max)
                         ELSE 0
        capped_total == daily_fee + remaining_fee
        daily_items ==
            IF remaining_fee > 0
            THEN << [description |-> "Daily rate", amount |-> daily_fee],
                    [description |-> "Remaining time", amount |-> remaining_fee] >>
            ELSE << [description |-> "Daily rate", amount |-> daily_fee] >>
        capped == [total_fee |-> daily_max,
                   breakdown |-> << [description |-> "Daily maximum cap applied",
                                     amount |-> daily_max] >>]
        uncapped == [total_fee |-> base_fee, breakdown |-> hourly_items]
        final ==
            IF daily_rate = NoRate THEN uncapped
            ELSE IF full_days > 0
            THEN IF capped_total < base_fee
                 THEN [total_fee |-> capped_total, breakdown |-> daily_items]
                 ELSE uncapped
            ELSE IF base_fee > daily_max THEN capped
            ELSE uncapped
    IN  IF WithinGrace(grace_period, duration_minutes)
        THEN [duration_minutes |-> duration_minutes, base_fee |-> 0, total |-> 0,
              breakdown |-> << [description |-> "Within grace period", amount |-> 0] >>]
        ELSE [duration_minutes |-> duration_minutes, base_fee |-> base_fee,
              total |-> Round2(final.total_fee), breakdown |-> final.breakdown]

\* A variant that prefers the exit time recorded on the session to the one
\* supplied.
EndTimeRecordedFirst(session, exit_time) ==
    IF session.exit_time # NoTime THEN session.exit_time
    ELSE IF exit_time # NoTime THEN exit_time
    ELSE now

\* end_time = exit_time or session.exit_time or datetime.now(UTC)
EndTime(session, exit_time) ==
    IF exit_time # NoTime THEN exit_time
    ELSE IF session.exit_time # NoTime THEN session.exit_time
    ELSE now

\* What calculate_fee can return once it has loaded the session row.
CalculateFeeOf(session, exit_time) ==
    LET
        end_time == EndTime(session, exit_time)
        duration_minutes == end_time - session.entry_time
        vehicle_type_id == vehicles[session.vehicle_id]
        zone_id == IF session.space_id # NONE THEN spaces[session.space_id].zone_id ELSE NONE
        station == IF session.space_id # NONE /\ spaces[session.space_id].is_ev_charging
                   THEN stations[session.space_id] ELSE NoStation
    IN  {FeeCalculation(duration_minutes, end_time, hourly_rate, daily_rate, station) :
            hourly_rate \in GetApplicableRate(vehicle_type_id, zone_id, "hourly", now),
            daily_rate \in GetApplicableRate(vehicle_type_id, zone_id, "daily", now)}

CalculateFee(session_id, exit_time) == CalculateFeeOf(sessions[session_id], exit_time)

\* GET /sessions/{session_id}/calculate-fee; exit_time is NoTime when the query
\* parameter is absent.
CalculateFeeRequest(session_id, exit_time) ==
    IF session_id \notin Ids(sessions) THEN Reject("calculate_fee", "not_found")
    ELSE \E fee_calc \in CalculateFee(session_id, exit_time) :
            /\ last' = [Response("calculate_fee", "ok") EXCEPT
                            !.id = session_id, !.amount = fee_calc.total,
                            !.fee = fee_calc]
            /\ UNCHANGED <<store, now, txn>>

\* ------------------------------------------------------------ reservations
\* A variant that counts a reservation ending at the requested start as
\* overlapping.
OverlapClauseTouching(r, start_time, end_time) ==
    \/ (r.start_time <= start_time /\ r.end_time >= start_time)
    \/ (r.start_time < end_time /\ r.end_time >= end_time)
    \/ (r.start_time >= start_time /\ r.end_time <= end_time)

\* The three-clause overlap filter of create_reservation and check_availability.
OverlapClause(r, start_time, end_time) ==
    \/ (r.start_time <= start_time /\ r.end_time > start_time)
    \/ (r.start_time < end_time /\ r.end_time >= end_time)
    \/ (r.start_time >= start_time /\ r.end_time <= end_time)

\* The rows the conflict query of create_reservation selects.
ConflictingReservations(space_id, start_time, end_time) ==
    {i \in Ids(reservations) :
        /\ reservations[i].space_id = space_id
        /\ reservations[i].status \in {"pending", "confirmed"}
        /\ OverlapClause(reservations[i], start_time, end_time)}

\* What create_reservation writes once its checks have passed.
InsertReservation(vehicle_id, space_id, zone_id, start_time, end_time) ==
    /\ reservations' = Append(reservations,
            [vehicle_id |-> vehicle_id, space_id |-> space_id, zone_id |-> zone_id,
             start_time |-> start_time, end_time |-> end_time, status |-> "confirmed"])
    /\ spaces' = IF space_id # NONE /\ spaces[space_id].status = "available"
                 THEN [spaces EXCEPT ![space_id].status = "reserved"]
                 ELSE spaces
    /\ last' = [Response("create_reservation", "ok") EXCEPT !.id = Len(reservations) + 1]

\* The conflict query read through scalar_one_or_none: "pass" when no row matches.
ConflictCheck(space_id, start_time, end_time) ==
    LET conflicts == ConflictingReservations(space_id, start_time, end_time)
    IN  IF space_id = NONE THEN "pass"
        ELSE IF Cardinality(conflicts) > 1 THEN "multiple_results"
        ELSE IF conflicts # {} THEN "conflict_error"
        ELSE "pass"

CreateReservation(vehicle_id, space_id, zone_id, start_time, end_time) ==
    IF start_time >= end_time
    THEN RejectWith("create_reservation", "validation_error",
                    "End time must be after start time")
    ELSE IF start_time < now
    THEN RejectWith("create_reservation", "validation_error",
                    "Cannot create reservation in the past")
    ELSE IF ConflictCheck(space_id, start_time, end_time) # "pass"
    THEN Reject("create_reservation", ConflictCheck(space_id, start_time, end_time))
    ELSE IF space_id # NONE /\ space_id \notin DOMAIN spaces
    THEN Reject("create_reservation", "not_found")
    ELSE /\ InsertReservation(vehicle_id, space_id, zone_id, start_time, end_time)
         /\ UNCHANGED <<stations, charging, vehicles, rates, memberships, discounts,
                        sessions, payments, now, txn>>

\* A variant that lists every AVAILABLE space, booked or not.
FreeSpacesByStatus(start_time, end_time, zone_id) ==
    {s \in DOMAIN spaces :
        /\ spaces[s].status = "available"
        /\ (zone_id = NONE \/ spaces[s].zone_id = zone_id)}

\* The query of check_availability: the AVAILABLE spaces (of the zone, if one is
\* given) that no PENDING or CONFIRMED reservation passing the overlap filter is
\* booked on.
FreeSpaces(start_time, end_time, zone_id) ==
    LET reserved_space_ids ==
            {reservations[i].space_id :
                i \in {j \in Ids(reservations) :
                        /\ reservations[j].space_id # NONE
                        /\ reservations[j].status \in {"pending", "confirmed"}
                        /\ OverlapClause(reservations[j], start_time, end_time)}}
    IN  {s \in DOMAIN spaces :
            /\ spaces[s].status = "available"
            /\ (zone_id = NONE \/ spaces[s].zone_id = zone_id)
            /\ s \notin reserved_space_ids}

\* check_availability: a read; it answers with the spaces found and their number.
CheckAvailability(start_time, end_time, zone_id) ==
    LET found == FreeSpaces(start_time, end_time, zone_id)
    IN  /\ last' = [Response("check_availability", "ok") EXCEPT
                        !.available_spaces = found, !.amount = Cardinality(found)]
        /\ UNCHANGED <<store, now, txn>>

\* update_reservation: every field that is set is assigned, nothing is checked
\* beyond the status.
UpdateReservation(reservation_id, start_time, end_time, space_id) ==
    IF reservation_id \notin Ids(reservations)
    THEN Reject("update_reservation", "not_found")
    ELSE IF reservations[reservation_id].status \notin {"pending", "confirmed"}
    THEN Reject("update_reservation", "validation_error")
    ELSE LET r == reservations[reservation_id]
             updated == [r EXCEPT
                 !.start_time = IF start_time = Unset THEN r.start_time ELSE start_time,
                 !.end_time = IF end_time = Unset THEN r.end_time ELSE end_time,
                 !.space_id = IF space_id = Unset THEN r.space_id ELSE space_id]
         IN  /\ reservations' = [reservations EXCEPT ![reservation_id] = updated]
             /\ last' = [Response("update_reservation", "ok") EXCEPT !.id = reservation_id]
             /\ UNCHANGED <<spaces, stations, charging, vehicles, rates, memberships,
                            discounts, sessions, payments, now, txn>>

\* A variant that releases the space of the reservation whatever its status.
CancelReleasesAlways(status) == TRUE

\* cancel_reservation releases the space only when space.status == RESERVED
CancelReleases(status) == status = "reserved"

CancelReservation(reservation_id) ==
    IF reservation_id \notin Ids(reservations)
    THEN Reject("cancel_reservation", "not_found")
    ELSE IF reservations[reservation_id].status \notin {"pending", "confirmed"}
    THEN Reject("cancel_reservation", "validation_error")
    ELSE LET space_id == reservations[reservation_id].space_id
         IN  /\ reservations' = [reservations EXCEPT ![reservation_id].status = "cancelled"]
             /\ spaces' = IF space_id # NONE /\ space_id \in DOMAIN spaces
                             /\ CancelReleases(spaces[space_id].status)
                          THEN [spaces EXCEPT ![space_id].status = "available"]
                          ELSE spaces
             /\ last' = [Response("cancel_reservation", "ok") EXCEPT !.id = reservation_id]
             /\ UNCHANGED <<stations, charging, vehicles, rates, memberships, discounts,
                            sessions, payments, now, txn>>

\* A variant that does not link the session to the reservation.
NewSessionUnlinked(vehicle_id, space_id, reservation_id) ==
    [vehicle_id |-> vehicle_id, space_id |-> space_id, reservation_id |-> NONE,
     entry_time |-> now, exit_time |-> NoTime, status |-> "active"]

NewSession(vehicle_id, space_id, reservation_id) ==
    [vehicle_id |-> vehicle_id, space_id |-> space_id, reservation_id |-> reservation_id,
     entry_time |-> now, exit_time |-> NoTime, status |-> "active"]

\* The spaces check_in_reservation can end up with: the reserved one, else an
\* AVAILABLE space of the reserved zone (limit(1): the store picks), else none.
CheckInSpaces(r) ==
    LET free == {s \in DOMAIN spaces : spaces[s].zone_id = r.zone_id
                                       /\ spaces[s].status = "available"}
    IN  IF r.space_id # NONE THEN {r.space_id}
        ELSE IF r.zone_id # NONE /\ free # {} THEN free
        ELSE {NONE}

\* A variant that checks in every reservation not yet checked in.
CheckInAllowedUnlessCheckedIn(status) == status # "checked_in"

\* check_in_reservation goes on only when status == CONFIRMED
CheckInAllowed(status) == status = "confirmed"

CheckInReservation(reservation_id) ==
    IF reservation_id \notin Ids(reservations)
    THEN Reject("check_in_reservation", "not_found")
    ELSE IF ~CheckInAllowed(reservations[reservation_id].status)
    THEN Reject("check_in_reservation", "validation_error")
    ELSE LET r == reservations[reservation_id]
         IN  \E space_id \in CheckInSpaces(r) :
                IF space_id # NONE /\ space_id \notin DOMAIN spaces
                THEN Reject("check_in_reservation", "no_result_found")
                ELSE /\ spaces' = IF space_id # NONE
                                  THEN [spaces EXCEPT ![space_id].status = "occupied"]
                                  ELSE spaces
                     /\ sessions' = Append(sessions,
                                        NewSession(r.vehicle_id, space_id, reservation_id))
                     /\ reservations' =
                            [reservations EXCEPT ![reservation_id].status = "checked_in"]
                     /\ last' = [Response("check_in_reservation", "ok")
                                    EXCEPT !.id = Len(sessions) + 1]
                     /\ UNCHANGED <<stations, charging, vehicles, rates, memberships,
                                    discounts, payments, now, txn>>

\* ------------------------------------------------------------------ clock
Tick(minutes) ==
    /\ now' = now + minutes
    /\ UNCHANGED <<store, last, txn>>

\* --------------------------------------------------------------- sessions
ActiveSessionsOf(vehicle_id) ==
    {i \in Ids(sessions) : sessions[i].vehicle_id = vehicle_id
                           /\ sessions[i].status = "active"}

\* A variant that also offers the spaces that are not in use at the moment,
\* whatever their status.
AvailableSpacesOrIdle ==
    LET free == {s \in DOMAIN spaces : spaces[s].status # "occupied"}
    IN  IF free = {} THEN {NONE} ELSE free

\* get_available_spaces(limit=1): an AVAILABLE space (the store picks), or none.
AvailableSpaces ==
    LET free == {s \in DOMAIN spaces : spaces[s].status = "available"}
    IN  IF free = {} THEN {NONE} ELSE free

CreateEntry(license_plate) ==
    LET registered == vehicles[license_plate] # NONE
        existing == ActiveSessionsOf(license_plate)
    IN  IF registered /\ Cardinality(existing) > 1
        THEN Reject("create_entry", "multiple_results")
        ELSE IF registered /\ existing # {}
        THEN Reject("create_entry", "validation_error")
        ELSE \E space_id \in AvailableSpaces :
                /\ vehicles' = IF registered THEN vehicles
                               ELSE [vehicles EXCEPT ![license_plate] = DefaultVehicleTypeId]
                /\ sessions' = Append(sessions, NewSession(license_plate, space_id, NONE))
                /\ spaces' = IF space_id # NONE
                             THEN [spaces EXCEPT ![space_id].status = "occupied"]
                             ELSE spaces
                /\ last' = [Response("create_entry", "ok") EXCEPT !.id = Len(sessions) + 1]
                /\ UNCHANGED <<stations, charging, rates, memberships, discounts,
                               reservations, payments, now, txn>>

\* A variant that selects sessions of every status.
ExitCandidatesAnyStatus(ticket_number, license_plate) ==
    IF ticket_number # NONE
    THEN {i \in Ids(sessions) : i = ticket_number}
    ELSE {i \in Ids(sessions) : sessions[i].vehicle_id = license_plate
                                /\ vehicles[license_plate] # NONE}

\* The ACTIVE sessions the query of process_exit selects, by ticket or else by plate.
ExitCandidates(ticket_number, license_plate) ==
    IF ticket_number # NONE
    THEN {i \in Ids(sessions) : i = ticket_number /\ sessions[i].status = "active"}
    ELSE {i \in Ids(sessions) : sessions[i].vehicle_id = license_plate
                                /\ vehicles[license_plate] # NONE
                                /\ sessions[i].status = "active"}

ProcessExit(ticket_number, license_plate) ==
    LET found == ExitCandidates(ticket_number, license_plate)
    IN  IF ticket_number = NONE /\ license_plate = NONE
        THEN Reject("process_exit", "validation_error")
        ELSE IF Cardinality(found) > 1 THEN Reject("process_exit", "multiple_results")
        ELSE IF found = {} THEN Reject("process_exit", "not_found")
        ELSE \E session_id \in found :
             LET session == [sessions[session_id] EXCEPT !.exit_time = now]
             IN  \E fee_calc \in CalculateFeeOf(session, NoTime) :
                    /\ sessions' = [sessions EXCEPT ![session_id] = session]
                    /\ spaces' = IF session.space_id # NONE
                                 THEN [spaces EXCEPT ![session.space_id].status = "available"]
                                 ELSE spaces
                    /\ last' = [Response("process_exit", "ok") EXCEPT
                                    !.id = session_id, !.amount = fee_calc.total]
                    /\ UNCHANGED <<stations, charging, vehicles, rates, memberships,
                                   discounts, reservations, payments, now, txn>>

CompleteSession(session_id) ==
    IF session_id \notin Ids(sessions) THEN Reject("complete_session", "not_found")
    ELSE /\ sessions' = [sessions EXCEPT ![session_id].status = "completed"]
         /\ last' = [Response("complete_session", "ok") EXCEPT !.id = session_id]
         /\ UNCHANGED <<spaces, stations, charging, vehicles, rates, memberships,
                        discounts, reservations, payments, now, txn>>

AssignSpace(session_id, space_id) ==
    IF session_id \notin Ids(sessions) THEN Reject("assign_space", "not_found")
    ELSE IF space_id \notin DOMAIN spaces THEN Reject("assign_space", "not_found")
    ELSE IF spaces[space_id].status # "available"
    THEN Reject("assign_space", "validation_error")
    ELSE LET old_space == sessions[session_id].space_id
             released == IF old_space # NONE
                         THEN [spaces EXCEPT ![old_space].status = "available"]
                         ELSE spaces
         IN  /\ sessions' = [sessions EXCEPT ![session_id].space_id = space_id]
             /\ spaces' = [released EXCEPT ![space_id].status = "occupied"]
             /\ last' = [Response("assign_space", "ok") EXCEPT !.id = session_id]
             /\ UNCHANGED <<stations, charging, vehicles, rates, memberships, discounts,
                            reservations, payments, now, txn>>

\* update_space: the administrative edit of a space; the status given is stored
\* as it is.
UpdateSpace(space_id, status) ==
    IF space_id \notin DOMAIN spaces THEN Reject("update_space", "not_found")
    ELSE /\ spaces' = [spaces EXCEPT ![space_id].status = status]
         /\ last' = [Response("update_space", "ok") EXCEPT !.id = space_id]
         /\ UNCHANGED <<stations, charging, vehicles, rates, memberships, discounts,
                        reservations, sessions, payments, now, txn>>

\* --------------------------------------------------------------- payments
CompletedPayments(session_id) ==
    {i \in Ids(payments) : payments[i].session_id = session_id
                           /\ payments[i].status = "completed"}

Invalid(message) ==
    [is_valid |-> FALSE, message |-> message, discount_id |-> NONE,
     has_amount |-> FALSE, discount_amount |-> 0]

\* validate_discount, given the total calculate_fee returned for the session
\* (has_total is false when no session_id is passed: no amount is computed).
ValidateDiscount(code, has_total, total) ==
    LET found == {i \in Ids(discounts) : discounts[i].code = Upper(code)}
    IN  IF found = {} THEN Invalid("Invalid discount code")
        ELSE LET id == CHOOSE i \in found : TRUE
                 discount == discounts[id]
             IN  IF ~discount.is_active THEN Invalid("Discount is not active")
                 ELSE IF discount.valid_from > now THEN Invalid("Discount is not yet valid")
                 ELSE IF discount.valid_to < now THEN Invalid("Discount has expired")
                 ELSE IF discount.max_uses # NoLimit /\ discount.max_uses # 0
                         /\ discount.current_uses >= discount.max_uses
                 THEN Invalid("Discount usage limit reached")
                 ELSE [is_valid |-> TRUE, message |-> "", discount_id |-> id,
                       has_amount |-> has_total
                            /\ discount.discount_type \in {"percentage", "fixed_amount"},
                       discount_amount |->
                            IF ~has_total THEN 0
                            ELSE IF discount.discount_type = "percentage"
                            THEN (total * discount.value) \div 100
                            ELSE IF discount.discount_type = "fixed_amount"
                            THEN Min2(discount.value, total)
                            ELSE 0]

\* A variant without the floor at zero.
TotalAmountUnclamped(fee_total, discount_amount) == fee_total - discount_amount

\* total_amount = max(0, fee_calc.total - discount_amount)
TotalAmount(fee_total, discount_amount) == Max2(0, fee_total - discount_amount)

\* A variant that also rejects the exact amount.
InsufficientOrExact(amount, total_amount) == amount <= total_amount

\* if data.amount < total_amount: raise PaymentError
Insufficient(amount, total_amount) == amount < total_amount

\* A variant that counts every use twice.
CountUseTwice(discount_id) ==
    [discounts EXCEPT ![discount_id].current_uses = @ + 2]

\* discount.current_uses += 1
CountUse(discount_id) ==
    [discounts EXCEPT ![discount_id].current_uses = @ + 1]

\* A variant that commits what a failed request has written.
CommitAnyway(written) == written

\* get_db: an exception rolls the request's writes back; the discounts are as
\* stored, whatever the request had written to them.
RollBack(written) == discounts

\* process_payment from the fee calculation on: the discount, the amount check,
\* the insert.
SettlePayment(session_id, discount_code, amount) ==
    \E fee_calc \in CalculateFee(session_id, NoTime) :
    \E discount_fee \in CalculateFee(session_id, NoTime) :
        LET validation == IF discount_code # ""
                          THEN ValidateDiscount(discount_code, TRUE, discount_fee.total)
                          ELSE Invalid("")
            discount_id == validation.discount_id
            discount_amount == IF validation.is_valid /\ validation.has_amount
                               THEN validation.discount_amount ELSE 0
            total_amount == TotalAmount(fee_calc.total, discount_amount)
        IN  IF Insufficient(amount, total_amount)
            THEN /\ last' = [Response("process_payment", "payment_error") EXCEPT
                                !.message = "Insufficient payment amount",
                                !.amount = total_amount]
                 /\ discounts' = RollBack(IF validation.is_valid
                                          THEN CountUse(discount_id)
                                          ELSE discounts)
                 /\ UNCHANGED <<spaces, stations, charging, vehicles, rates, memberships,
                                reservations, sessions, payments, now>>
            ELSE /\ payments' = Append(payments,
                        [session_id |-> session_id, amount |-> fee_calc.total,
                         status |-> "completed", discount_id |-> discount_id,
                         discount_amount |-> discount_amount,
                         total_amount |-> total_amount])
                 /\ discounts' = IF validation.is_valid
                                 THEN CountUse(discount_id)
                                 ELSE discounts
                 /\ last' = [Response("process_payment", "ok") EXCEPT
                                !.id = Len(payments) + 1, !.amount = total_amount]
                 /\ UNCHANGED <<spaces, stations, charging, vehicles, rates, memberships,
                                reservations, sessions, now>>

\* A variant without the lookup of a COMPLETED payment.
PaymentCheckSessionOnly(session_id) ==
    IF session_id \notin Ids(sessions) THEN "not_found" ELSE "pass"

\* The lookups process_payment makes before it calculates the fee.
PaymentCheck(session_id) ==
    IF session_id \notin Ids(sessions) THEN "not_found"
    ELSE IF Cardinality(CompletedPayments(session_id)) > 1 THEN "multiple_results"
    ELSE IF CompletedPayments(session_id) # {} THEN "already_paid"
    ELSE "pass"

ProcessPayment(session_id, discount_code, amount) ==
    IF PaymentCheck(session_id) = "already_paid"
    THEN RejectWith("process_payment", "payment_error", "Session has already been paid")
    ELSE IF PaymentCheck(session_id) # "pass"
    THEN Reject("process_payment", PaymentCheck(session_id))
    ELSE /\ SettlePayment(session_id, discount_code, amount)
         /\ UNCHANGED txn

\* A variant that reports the fee of an unpaid session but lets it leave.
ValidateExitOpenGate(ticket_number) ==
    IF ticket_number \notin Ids(sessions) THEN Reject("validate_exit", "not_found")
    ELSE \E fee_calc \in CalculateFee(ticket_number, NoTime) :
            /\ last' = [Response("validate_exit", "ok") EXCEPT
                            !.id = ticket_number, !.amount = fee_calc.total,
                            !.can_exit = TRUE]
            /\ UNCHANGED <<store, now, txn>>

ValidateExit(ticket_number) ==
    IF ticket_number \notin Ids(sessions) THEN Reject("validate_exit", "not_found")
    ELSE IF Cardinality(CompletedPayments(ticket_number)) > 1
    THEN Reject("validate_exit", "multiple_results")
    ELSE IF CompletedPayments(ticket_number) # {}
    THEN /\ last' = [Response("validate_exit", "ok") EXCEPT
                        !.id = ticket_number, !.is_paid = TRUE, !.can_exit = TRUE]
         /\ UNCHANGED <<store, now, txn>>
    ELSE \E fee_calc \in CalculateFee(ticket_number, NoTime) :
            /\ last' = [Response("validate_exit", "ok") EXCEPT
                            !.id = ticket_number, !.amount = fee_calc.total]
            /\ UNCHANGED <<store, now, txn>>

\* POST /discounts/validate: validate_discount as a request of its own.  With a
\* session_id the discount amount is computed from calculate_fee, which raises
\* NotFoundError for an unknown session.
ValidateDiscountRequest(code, session_id) ==
    LET has_session == session_id # NONE
        check == ValidateDiscount(code, FALSE, 0)
    IN  IF check.is_valid /\ has_session /\ session_id \notin Ids(sessions)
        THEN Reject("validate_discount", "not_found")
        ELSE \E fee_calc \in (IF check.is_valid /\ has_session
                              THEN CalculateFee(session_id, NoTime)
                              ELSE {[total |-> 0]}) :
             LET validation == ValidateDiscount(code, has_session, fee_calc.total)
             IN  /\ last' = [Response("validate_discount", "ok") EXCEPT
                                !.is_valid = validation.is_valid,
                                !.message = validation.message,
                                !.id = validation.discount_id,
                                !.amount = validation.discount_amount]
                 /\ UNCHANGED <<store, now, txn>>

\* -------------------------------------------------------------- EV charging
\* Vehicle rows with is_ev = true (a vehicle row made by create_entry has the
\* default, false).
EvVehicles == {1}

\* round(n / d): to the nearest integer, ties to even
RoundRatio(n, d) ==
    LET q == n \div d
        r == n % d
    IN  IF 2 * r < d THEN q
        ELSE IF 2 * r > d THEN q + 1
        ELSE IF q % 2 = 0 THEN q ELSE q + 1

\* A variant that also starts a session on a station in use.
StationAvailableOrInUse(status) == status \in {"available", "in_use"}

\* start_charging goes on only when station.status == AVAILABLE
StationAvailable(status) == status = "available"

StartCharging(station_id, vehicle_id, parking_session_id) ==
    IF station_id \notin DOMAIN stations \/ stations[station_id] = NoStation
    THEN Reject("start_charging", "not_found")
    ELSE IF ~StationAvailable(stations[station_id].status)
    THEN Reject("start_charging", "validation_error")
    ELSE /\ charging' = Append(charging,
                [station_id |-> station_id, vehicle_id |-> vehicle_id,
                 parking_session_id |-> parking_session_id, start_time |-> now,
                 end_time |-> NoTime, status |-> "charging", energy_kwh |-> 0,
                 cost |-> 0])
         /\ stations' = [stations EXCEPT ![station_id].status = "in_use"]
         /\ last' = [Response("start_charging", "ok") EXCEPT !.id = Len(charging) + 1]
         /\ UNCHANGED <<spaces, vehicles, rates, memberships, discounts, reservations, sessions,
                        payments, now, txn>>

\* A variant that does not look at the space of the parking session.
PromoOkAnySpace(session) ==
    /\ session.vehicle_id \in DOMAIN vehicles
    /\ vehicles[session.vehicle_id] # NONE
    /\ session.vehicle_id \in EvVehicles
    /\ session.parking_session_id \in Ids(sessions)

\* promo_ok: the vehicle is an EV and the linked parking session's space is
\* EV-charging-equipped.
PromoOk(session) ==
    /\ session.vehicle_id \in DOMAIN vehicles
    /\ vehicles[session.vehicle_id] # NONE
    /\ session.vehicle_id \in EvVehicles
    /\ session.parking_session_id \in Ids(sessions)
    /\ sessions[session.parking_session_id].space_id # NONE
    /\ spaces[sessions[session.parking_session_id].space_id].is_ev_charging

\* stop_charging; p is the promo code ("" when none is given).  Energy is kept in
\* 1/100 kWh: minutes / 60 * power_kw * 0.8 = minutes * power_kw / 75.
StopCharging(session_id, p) ==
    IF session_id \notin Ids(charging) THEN Reject("stop_charging", "not_found")
    ELSE IF charging[session_id].status \notin {"started", "charging"}
    THEN Reject("stop_charging", "validation_error")
    ELSE LET session == charging[session_id]
             station == stations[session.station_id]
             duration_minutes == now - session.start_time
             rate == IF station.charger_type = "level2"
                     THEN station.price_per_kwh + Level2Surcharge
                     ELSE station.price_per_kwh
             validation == IF p # "" THEN ValidateDiscount(p, FALSE, 0) ELSE Invalid("")
             promo_applies == /\ validation.is_valid
                              /\ PromoOk(session)
                              /\ discounts[validation.discount_id].discount_type
                                    = "percentage"
             discount_rate == Max2(0, Min2(100,
                                  100 - discounts[validation.discount_id].value))
             promo_minutes == Min2(240, duration_minutes)
             full_minutes == Max2(0, duration_minutes - 240)
             cost == IF promo_applies
                     THEN RoundRatio((promo_minutes * discount_rate + full_minutes * 100)
                                        * station.power_kw * rate, 75 * 100 * 100) * 100
                     ELSE RoundRatio(duration_minutes * station.power_kw * rate,
                                     75 * 100) * 100
         IN  /\ charging' = [charging EXCEPT
                    ![session_id].end_time = now,
                    ![session_id].status = "completed",
                    ![session_id].energy_kwh =
                        RoundRatio(duration_minutes * station.power_kw * 100, 75),
                    ![session_id].cost = cost]
             /\ stations' = [stations EXCEPT ![session.station_id].status = "available"]
             /\ last' = [Response("stop_charging", "ok") EXCEPT
                            !.id = session_id, !.amount = cost]
             /\ UNCHANGED <<spaces, vehicles, rates, memberships, discounts, reservations,
                            sessions, payments, now, txn>>

\* -------------------------------------------------- concurrent requests
\* Every request runs in its own unit of work; each await of a query is a point
\* where another request can run.  A request in flight is held in txn between the
\* check it has passed and the rows it writes.
BeginCreateReservation(c, vehicle_id, space_id, zone_id, start_time, end_time) ==
    /\ txn[c] = NoTxn
    /\ IF start_time >= end_time
       THEN RejectWith("create_reservation", "validation_error",
                       "End time must be after start time")
       ELSE IF start_time < now
       THEN RejectWith("create_reservation", "validation_error",
                       "Cannot create reservation in the past")
       ELSE IF ConflictCheck(space_id, start_time, end_time) # "pass"
       THEN Reject("create_reservation", ConflictCheck(space_id, start_time, end_time))
       ELSE /\ txn' = [txn EXCEPT ![c] =
                        [op |-> "create_reservation", vehicle_id |-> vehicle_id,
                         space_id |-> space_id, zone_id |-> zone_id,
                         start_time |-> start_time, end_time |-> end_time]]
            /\ UNCHANGED <<store, now, last>>

FinishCreateReservation(c) ==
    /\ txn[c].op = "create_reservation"
    /\ txn' = [txn EXCEPT ![c] = NoTxn]
    /\ IF txn[c].space_id # NONE /\ txn[c].space_id \notin DOMAIN spaces
       THEN /\ last' = Response("create_reservation", "not_found")
            /\ UNCHANGED <<store, now>>
       ELSE /\ InsertReservation(txn[c].vehicle_id, txn[c].space_id, txn[c].zone_id,
                                 txn[c].start_time, txn[c].end_time)
            /\ UNCHANGED <<stations, charging, vehicles, rates, memberships, discounts,
                           sessions, payments, now>>

BeginProcessPayment(c, session_id, discount_code, amount) ==
    /\ txn[c] = NoTxn
    /\ IF PaymentCheck(session_id) = "already_paid"
       THEN RejectWith("process_payment", "payment_error", "Session has already been paid")
       ELSE IF PaymentCheck(session_id) # "pass"
       THEN Reject("process_payment", PaymentCheck(session_id))
       ELSE /\ txn' = [txn EXCEPT ![c] =
                        [op |-> "process_payment", session_id |-> session_id,
                         discount_code |-> discount_code, amount |-> amount]]
            /\ UNCHANGED <<store, now, last>>

FinishProcessPayment(c) ==
    /\ txn[c].op = "process_payment"
    /\ txn' = [txn EXCEPT ![c] = NoTxn]
    /\ SettlePayment(txn[c].session_id, txn[c].discount_code, txn[c].amount)

\* The rest of process_payment split at its suspension points: first the reads
\* (calculate_fee and validate_discount, which loads the discount row into the
\* request's database session), then the writes.  The re-select of line 269
\* returns the row object already loaded, so `current_uses += 1` writes the value
\* read by validate_discount plus one.
ReadPaymentDiscount(c) ==
    /\ txn[c].op = "process_payment"
    /\ \E fee_calc \in CalculateFee(txn[c].session_id, NoTime) :
       \E discount_fee \in CalculateFee(txn[c].session_id, NoTime) :
          LET validation == IF txn[c].discount_code # ""
                            THEN ValidateDiscount(txn[c].discount_code, TRUE,
                                                  discount_fee.total)
                            ELSE Invalid("")
          IN  txn' = [txn EXCEPT ![c] =
                        [op |-> "apply_payment", session_id |-> txn[c].session_id,
                         amount |-> txn[c].amount, fee_total |-> fee_calc.total,
                         is_valid |-> validation.is_valid,
                         discount_id |-> validation.discount_id,
                         discount_amount |->
                            IF validation.is_valid /\ validation.has_amount
                            THEN validation.discount_amount ELSE 0,
                         current_uses |->
                            IF validation.is_valid
                            THEN discounts[validation.discount_id].current_uses
                            ELSE 0]]
    /\ UNCHANGED <<store, now, last>>

WritePayment(c) ==
    /\ txn[c].op = "apply_payment"
    /\ txn' = [txn EXCEPT ![c] = NoTxn]
    /\ LET total_amount == TotalAmount(txn[c].fee_total, txn[c].discount_amount)
       IN  IF Insufficient(txn[c].amount, total_amount)
           THEN /\ last' = [Response("process_payment", "payment_error") EXCEPT
                               !.message = "Insufficient payment amount",
                               !.amount = total_amount]
                /\ UNCHANGED <<store, now>>
           ELSE /\ payments' = Append(payments,
                       [session_id |-> txn[c].session_id, amount |-> txn[c].fee_total,
                        status |-> "completed", discount_id |-> txn[c].discount_id,
                        discount_amount |-> txn[c].discount_amount,
                        total_amount |-> total_amount])
                /\ discounts' = IF txn[c].is_valid
                                THEN [discounts EXCEPT ![txn[c].discount_id].current_uses
                                                        = txn[c].current_uses + 1]
                                ELSE discounts
                /\ last' = [Response("process_payment", "ok") EXCEPT
                               !.id = Len(payments) + 1, !.amount = total_amount]
                /\ UNCHANGED <<spaces, stations, charging, vehicles, rates, memberships,
                               reservations, sessions, now>>

\* ------------------------------------------------------------------- Init
\* Two spaces of zone 1, plate 1 registered as a vehicle of type 1, an hourly rate
\* of $5 with 15 minutes of grace, a daily rate of $25, a 50% code limited to one
\* use and a fixed $7.50 code.
InitRates ==
    << [id |-> 1, vehicle_type_id |-> NONE, zone_id |-> NONE, rate_type |-> "hourly",
        amount |-> 50000, grace_period_minutes |-> 15, effective_from |-> 0,
        effective_to |-> NoTime, peak_multiplier |-> 100, peak_start_time |-> NoTime,
        peak_end_time |-> NoTime, is_active |-> TRUE],
       [id |-> 2, vehicle_type_id |-> NONE, zone_id |-> NONE, rate_type |-> "daily",
        amount |-> 250000, grace_period_minutes |-> 15, effective_from |-> 0,
        effective_to |-> NoTime, peak_multiplier |-> 100, peak_start_time |-> NoTime,
        peak_end_time |-> NoTime, is_active |-> TRUE] >>

InitDiscounts ==
    << [code |-> "SAVE", discount_type |-> "percentage", value |-> 50,
        valid_from |-> 0, valid_to |-> 100000, max_uses |-> 1, current_uses |-> 0,
        is_active |-> TRUE],
       [code |-> "FIX", discount_type |-> "fixed_amount", value |-> 75000,
        valid_from |-> 0, valid_to |-> 100000, max_uses |-> NoLimit, current_uses |-> 0,
        is_active |-> TRUE] >>

Clients == {1, 2}

Init ==
    /\ spaces = [s \in SpaceIds |->
                    [status |-> "available", zone_id |-> 1, is_ev_charging |-> FALSE]]
    /\ stations = [s \in SpaceIds |-> NoStation]
    /\ vehicles = [p \in Plates |-> IF p = 1 THEN DefaultVehicleTypeId ELSE NONE]
    /\ rates = InitRates
    /\ discounts = InitDiscounts
    /\ reservations = << >>
    /\ sessions = << >>
    /\ payments = << >>
    /\ charging = << >>
    /\ memberships = << >>
    /\ now = 0
    /\ last = Response("init", "ok")
    /\ txn = [c \in Clients |-> NoTxn]

\* ------------------------------------------------------- request streams
Registered == {p \in Plates : vehicles[p] # NONE}

DoTick == \E m \in TickMinutes : now < MaxTicks * m /\ Tick(m)

DoCreateReservation ==
    \E v \in Registered, sp \in SpaceIds, s \in Hours, e \in Hours :
        /\ CreateReservation(v, sp, NONE, s, e)
        /\ Len(reservations') <= MaxReservations

DoUpdateReservation ==
    \E id \in Ids(reservations), s \in Hours \cup {Unset}, e \in Hours \cup {Unset} :
        UpdateReservation(id, s, e, Unset)

DoCancelReservation == \E id \in Ids(reservations) : CancelReservation(id)

DoCheckIn ==
    \E id \in Ids(reservations) :
        /\ CheckInReservation(id)
        /\ Len(sessions') <= MaxSessions

DoCreateEntry ==
    \E p \in Plates :
        /\ CreateEntry(p)
        /\ Len(sessions') <= MaxSessions

DoProcessExit ==
    \/ \E id \in Ids(sessions) : ProcessExit(id, NONE)
    \/ \E p \in Plates : ProcessExit(NONE, p)

DoCompleteSession == \E id \in Ids(sessions) : CompleteSession(id)

DoAssignSpace == \E id \in Ids(sessions), sp \in SpaceIds : AssignSpace(id, sp)

DoProcessPayment ==
    \E id \in Ids(sessions), code \in Codes \cup {""}, amount \in Tenders :
        /\ ProcessPayment(id, code, amount)
        /\ Len(payments') <= MaxPayments

DoValidateExit == \E id \in Ids(sessions) : ValidateExit(id)

\* Reservations alone: booking, rescheduling, cancelling, checking in.
NextReservations ==
    \/ DoCreateReservation
    \/ DoUpdateReservation
    \/ DoCancelReservation
    \/ DoCheckIn
    \/ DoTick

SpecReservations == Init /\ [][NextReservations]_vars

\* Bookings without rescheduling.
NextBookings ==
    \/ DoCreateReservation
    \/ DoCancelReservation
    \/ DoCheckIn
    \/ DoTick

SpecBookings == Init /\ [][NextBookings]_vars

\* Two clients booking at the same time.
DoBeginCreateReservation ==
    \E c \in Clients, v \in Registered, sp \in SpaceIds, s \in Hours, e \in Hours :
        /\ Len(reservations) < MaxReservations
        /\ BeginCreateReservation(c, v, sp, NONE, s, e)

DoFinishCreateReservation == \E c \in Clients : FinishCreateReservation(c)

NextConcurrentBookings ==
    \/ DoBeginCreateReservation
    \/ DoFinishCreateReservation
    \/ DoCancelReservation
    \/ DoTick

SpecConcurrentBookings == Init /\ [][NextConcurrentBookings]_vars

\* The car park: walk-in entries, reserved arrivals, exits.
DoReserve ==
    \E v \in Registered, sp \in SpaceIds \cup {NONE} :
        /\ CreateReservation(v, sp, IF sp = NONE THEN 1 ELSE NONE, 120, 180)
        /\ Len(reservations') <= MaxArrivals

NextParking ==
    \/ DoCreateEntry
    \/ DoReserve
    \/ DoCheckIn
    \/ DoAssignSpace
    \/ DoProcessExit
    \/ DoCompleteSession

SpecParking == Init /\ [][NextParking]_vars

\* The pay station: entries, exits, payments, exit validation.
NextPayments ==
    \/ DoCreateEntry
    \/ DoProcessExit
    \/ DoProcessPayment
    \/ DoValidateExit
    \/ DoTick

SpecPayments == Init /\ [][NextPayments]_vars

\* The discount desk: one EV-charging space with a level-2 station, and a table
\* of two codes; the limit and the use count of the first are drawn from small
\* sets, with current_uses <= max_uses wherever a limit is set.
DeskDiscounts ==
    { << [code |-> "SAVE", discount_type |-> "percentage", value |-> 50,
          valid_from |-> 0, valid_to |-> 100000, max_uses |-> m, current_uses |-> u,
          is_active |-> TRUE],
         [code |-> "FIX", discount_type |-> "fixed_amount", value |-> 75000,
          valid_from |-> 0, valid_to |-> 30, max_uses |-> NoLimit, current_uses |-> 0,
          is_active |-> TRUE] >> :
      m \in {NoLimit, 0, 1, 2}, u \in {0, 1} }

InitDiscountDesk ==
    /\ spaces = [s \in SpaceIds |->
                    [status |-> "available", zone_id |-> 1, is_ev_charging |-> s = 1]]
    /\ stations = [s \in SpaceIds |->
                    IF s = 1
                    THEN [id |-> 1, status |-> "available", charger_type |-> "level2",
                          power_kw |-> 10, price_per_kwh |-> 3000]
                    ELSE NoStation]
    /\ vehicles = [p \in Plates |-> IF p = 1 THEN DefaultVehicleTypeId ELSE NONE]
    /\ rates = InitRates
    /\ discounts \in {d \in DeskDiscounts :
                        d[1].max_uses = NoLimit \/ d[1].current_uses <= d[1].max_uses}
    /\ reservations = << >>
    /\ sessions = << >>
    /\ payments = << >>
    /\ charging = << >>
    /\ memberships = << >>
    /\ now = 0
    /\ last = Response("init", "ok")
    /\ txn = [c \in Clients |-> NoTxn]

DoDeskEntry ==
    \E p \in Plates :
        /\ CreateEntry(p)
        /\ Len(sessions') <= MaxDeskSessions

DoPayWithCode ==
    \E id \in Ids(sessions), code \in Codes \cup {"", "none"}, amount \in {0, 50000} :
        /\ ProcessPayment(id, code, amount)
        /\ Len(payments') <= MaxPayments

DoValidateDiscount ==
    \E code \in Codes \cup {"none"}, id \in {NONE, 1, MaxSessions + 1} :
        ValidateDiscountRequest(code, id)

DoStartCharging ==
    \E station_id \in SpaceIds, v \in EvVehicles, id \in {NONE, 1} :
        /\ StartCharging(station_id, v, id)
        /\ Len(charging') <= MaxCharging

DoStopCharging ==
    \E id \in Ids(charging), p \in {"", "save"} : StopCharging(id, p)

NextDiscounts ==
    \/ DoDeskEntry
    \/ DoPayWithCode
    \/ DoValidateDiscount
    \/ DoStartCharging
    \/ DoStopCharging
    \/ DoTick

SpecDiscounts == InitDiscountDesk /\ [][NextDiscounts]_vars

\* validate_discount as a function of the discount row and the clock: one code
\* whose flag, window, limit and use count are drawn from small sets.
ValidationDiscounts ==
    { << [code |-> "SAVE", discount_type |-> "percentage", value |-> 50,
          valid_from |-> f, valid_to |-> e, max_uses |-> m, current_uses |-> u,
          is_active |-> a] >> :
      a \in BOOLEAN, f \in {0, 45, 60}, e \in {0, 45, 100},
      m \in {NoLimit, 0, 1, 2}, u \in {0, 1, 2} }

InitDiscountValidation ==
    /\ spaces = [s \in SpaceIds |->
                    [status |-> "available", zone_id |-> 1, is_ev_charging |-> FALSE]]
    /\ stations = [s \in SpaceIds |-> NoStation]
    /\ vehicles = [p \in Plates |-> IF p = 1 THEN DefaultVehicleTypeId ELSE NONE]
    /\ rates = InitRates
    /\ discounts \in ValidationDiscounts
    /\ reservations = << >>
    /\ sessions = << >>
    /\ payments = << >>
    /\ charging = << >>
    /\ memberships = << >>
    /\ now = 0
    /\ last = Response("init", "ok")
    /\ txn = [c \in Clients |-> NoTxn]

NextDiscountValidation ==
    \/ DoDeskEntry
    \/ DoValidateDiscount
    \/ DoTick

SpecDiscountValidation == InitDiscountValidation /\ [][NextDiscountValidation]_vars

\* The till: one code of each type with values below, at and above the fee of
\* one billed hour ($5.00).
TillDiscounts ==
    { << [code |-> "SAVE", discount_type |-> k[1], value |-> k[2],
          valid_from |-> 0, valid_to |-> 100000, max_uses |-> NoLimit,
          current_uses |-> 0, is_active |-> TRUE] >> :
      k \in ({"percentage"} \X {50, 100, 150})
                \cup ({"fixed_amount"} \X {25000, 50000, 75000})
                \cup ({"free_hours"} \X {1}) }

InitTill ==
    /\ spaces = [s \in SpaceIds |->
                    [status |-> "available", zone_id |-> 1, is_ev_charging |-> FALSE]]
    /\ stations = [s \in SpaceIds |-> NoStation]
    /\ vehicles = [p \in Plates |-> IF p = 1 THEN DefaultVehicleTypeId ELSE NONE]
    /\ rates = InitRates
    /\ discounts \in TillDiscounts
    /\ reservations = << >>
    /\ sessions = << >>
    /\ payments = << >>
    /\ charging = << >>
    /\ memberships = << >>
    /\ now = 0
    /\ last = Response("init", "ok")
    /\ txn = [c \in Clients |-> NoTxn]

NextTill ==
    \/ DoCreateEntry
    \/ DoPayWithCode
    \/ DoTick

SpecTill == InitTill /\ [][NextTill]_vars

\* The fee calculator as a function of the rates and the interval: a generic
\* hourly rate of $5 whose grace period, peak window and peak multiplier are drawn
\* from small sets, with or without a generic daily rate.
GraceMinutes == {0, 15}

PeakWindows == {<<NoTime, NoTime>>, <<60, 200>>, <<1380, 30>>, <<60, NoTime>>}

PeakMultipliers == {0, 100, 150}

DailyCaps == {NONE, 250000, 300000}

ExitTimes == {0, 1, 15, 16, 60, 61, 190, 200, 1380, 1440, 2460, 4320, 7200}

FeeRates ==
    { LET hourly == [id |-> 1, vehicle_type_id |-> NONE, zone_id |-> NONE,
                     rate_type |-> "hourly", amount |-> 50000,
                     grace_period_minutes |-> g, effective_from |-> 0,
                     effective_to |-> NoTime, peak_multiplier |-> k,
                     peak_start_time |-> w[1], peak_end_time |-> w[2],
                     is_active |-> TRUE]
          daily == [id |-> 2, vehicle_type_id |-> NONE, zone_id |-> NONE,
                    rate_type |-> "daily", amount |-> d, grace_period_minutes |-> 15,
                    effective_from |-> 0, effective_to |-> NoTime,
                    peak_multiplier |-> 100, peak_start_time |-> NoTime,
                    peak_end_time |-> NoTime, is_active |-> TRUE]
      IN  IF d = NONE THEN << hourly >> ELSE << hourly, daily >> :
      g \in GraceMinutes, w \in PeakWindows, k \in PeakMultipliers, d \in DailyCaps }

InitFees ==
    /\ spaces = [s \in SpaceIds |->
                    [status |-> "available", zone_id |-> 1, is_ev_charging |-> FALSE]]
    /\ stations = [s \in SpaceIds |-> NoStation]
    /\ vehicles = [p \in Plates |-> IF p = 1 THEN DefaultVehicleTypeId ELSE NONE]
    /\ rates \in FeeRates
    /\ discounts = InitDiscounts
    /\ reservations = << >>
    /\ sessions = << >>
    /\ payments = << >>
    /\ charging = << >>
    /\ memberships = << >>
    /\ now = 0
    /\ last = Response("init", "ok")
    /\ txn = [c \in Clients |-> NoTxn]

DoCalculateFee ==
    \E id \in (1 .. MaxDeskSessions + 1), exit_time \in ExitTimes \cup {NoTime} :
        CalculateFeeRequest(id, exit_time)

NextFees ==
    \/ DoDeskEntry
    \/ DoCalculateFee
    \/ DoTick

SpecFees == InitFees /\ [][NextFees]_vars

\* Rate resolution as a function of the rates table: an hourly row in each of
\* the four tiers for vehicle type 1 and zone 1, each switched on, switched off,
\* ending at minute 20 or starting at minute 30; a fifth hourly row, in any tier,
\* effective from minute 10; and a daily row of the exact tier.
RateRow(id, tier, rate_type, is_active, effective_from, effective_to) ==
    [id |-> id, vehicle_type_id |-> tier[1], zone_id |-> tier[2],
     rate_type |-> rate_type, amount |-> 10000 * id, grace_period_minutes |-> 15,
     effective_from |-> effective_from, effective_to |-> effective_to,
     peak_multiplier |-> 100, peak_start_time |-> NoTime, peak_end_time |-> NoTime,
     is_active |-> is_active]

Tiers == << <<1, 1>>, <<1, NONE>>, <<NONE, 1>>, <<NONE, NONE>> >>

RowStates == {"on", "off", "until_20", "from_30"}

TieredRates ==
    { [i \in 1 .. 6 |->
            IF i <= 4
            THEN RateRow(i, Tiers[i], "hourly", s[i] # "off",
                         IF s[i] = "from_30" THEN 30 ELSE 0,
                         IF s[i] = "until_20" THEN 20 ELSE NoTime)
            ELSE IF i = 5 THEN RateRow(5, Tiers[k], "hourly", TRUE, 10, NoTime)
            ELSE RateRow(6, Tiers[1], "daily", TRUE, 0, NoTime)] :
      s \in [1 .. 4 -> RowStates], k \in 1 .. 4 }

InitRateTable ==
    /\ spaces = [s \in SpaceIds |->
                    [status |-> "available", zone_id |-> 1, is_ev_charging |-> FALSE]]
    /\ stations = [s \in SpaceIds |-> NoStation]
    /\ vehicles = [p \in Plates |-> IF p = 1 THEN DefaultVehicleTypeId ELSE NONE]
    /\ rates \in TieredRates
    /\ discounts = InitDiscounts
    /\ reservations = << >>
    /\ sessions = << >>
    /\ payments = << >>
    /\ charging = << >>
    /\ memberships = << >>
    /\ now = 0
    /\ last = Response("init", "ok")
    /\ txn = [c \in Clients |-> NoTxn]

DoResolveRate ==
    \E vehicle_type_id \in {NONE, 1, 2}, zone_id \in {NONE, 1},
       rate_type \in {"hourly", "daily"} :
        ResolveRate(vehicle_type_id, zone_id, rate_type)

NextRates ==
    \/ DoResolveRate
    \/ DoTick

SpecRates == InitRateTable /\ [][NextRates]_vars

\* Payments with the limited code from several clients at once.
DoBeginPayWithCode ==
    \E c \in Clients, id \in Ids(sessions), code \in {"", "save"} :
        /\ Len(payments) < MaxPayments
        /\ BeginProcessPayment(c, id, code, 50000)

DoReadPaymentDiscount == \E c \in Clients : ReadPaymentDiscount(c)

DoWritePayment == \E c \in Clients : WritePayment(c)

NextConcurrentDiscounts ==
    \/ DoCreateEntry
    \/ DoBeginPayWithCode
    \/ DoReadPaymentDiscount
    \/ DoWritePayment

SpecConcurrentDiscounts == InitDiscountDesk /\ [][NextConcurrentDiscounts]_vars

DoBeginProcessPayment ==
    \E c \in Clients, id \in Ids(sessions), code \in {"", "save"}, amount \in {0, 50000} :
        /\ Len(payments) < MaxPayments
        /\ BeginProcessPayment(c, id, code, amount)

DoFinishProcessPayment == \E c \in Clients : FinishProcessPayment(c)

NextConcurrentPayments ==
    \/ DoCreateEntry
    \/ DoBeginProcessPayment
    \/ DoFinishProcessPayment
    \/ DoTick

SpecConcurrentPayments == Init /\ [][NextConcurrentPayments]_vars

\* ---- fees on EV-charging spaces: space 1 is an EV space, with or without a
\* charging station; space 2 is an ordinary space.
EvStations ==
    { NoStation,
      [id |-> 1, status |-> "available", charger_type |-> "level2",
       power_kw |-> 10, price_per_kwh |-> 5000],
      [id |-> 1, status |-> "available", charger_type |-> "level2",
       power_kw |-> 10, price_per_kwh |-> 5126],
      [id |-> 1, status |-> "available", charger_type |-> "level2",
       power_kw |-> 10, price_per_kwh |-> 3000],
      [id |-> 1, status |-> "available", charger_type |-> "dc_fast",
       power_kw |-> 10, price_per_kwh |-> 7000] }

EvFeeRates ==
    {r \in FeeRates : /\ Len(r) = 2
                      /\ r[1].peak_multiplier = 150
                      /\ <<r[1].peak_start_time, r[1].peak_end_time>>
                            \in {<<NoTime, NoTime>>, <<60, 200>>}}

EvExitTimes == {10, 60, 420, 1200, 1439, 1500}

InitEvFees ==
    /\ spaces = [s \in SpaceIds |->
                    [status |-> "available", zone_id |-> 1, is_ev_charging |-> s = 1]]
    /\ stations \in {[s \in SpaceIds |-> IF s = 1 THEN st ELSE NoStation] :
                        st \in EvStations}
    /\ vehicles = [p \in Plates |-> IF p = 1 THEN DefaultVehicleTypeId ELSE NONE]
    /\ rates \in EvFeeRates
    /\ discounts = InitDiscounts
    /\ reservations = << >>
    /\ sessions = << >>
    /\ payments = << >>
    /\ charging = << >>
    /\ memberships = << >>
    /\ now = 0
    /\ last = Response("init", "ok")
    /\ txn = [c \in Clients |-> NoTxn]

DoCalculateEvFee ==
    \E id \in (1 .. MaxDeskSessions + 1), exit_time \in EvExitTimes \cup {NoTime} :
        CalculateFeeRequest(id, exit_time)

NextEvFees ==
    \/ DoDeskEntry
    \/ DoCalculateEvFee
    \/ DoTick

SpecEvFees == InitEvFees /\ [][NextEvFees]_vars

\* ---- fees asked before and after the exit gate
NextExitFees ==
    \/ DoDeskEntry
    \/ DoProcessExit
    \/ DoCalculateFee
    \/ DoTick

SpecExitFees == Init /\ [][NextExitFees]_vars

\* ---- fees with missing rates: the rate table holds no hourly rate, an
\* inactive one or an active one, and likewise for the daily rate.
HourlyOptions == {"none", "inactive", "grace_0", "grace_15", "peak"}

DailyOptions == {"none", "inactive", "cap"}

SparseRates ==
    { LET hourly == [id |-> 1, vehicle_type_id |-> NONE, zone_id |-> NONE,
                     rate_type |-> "hourly", amount |-> 30000,
                     grace_period_minutes |-> IF h = "grace_0" THEN 0 ELSE 15,
                     effective_from |-> 0, effective_to |-> NoTime,
                     peak_multiplier |-> 150,
                     peak_start_time |-> IF h = "peak" THEN 60 ELSE NoTime,
                     peak_end_time |-> IF h = "peak" THEN 200 ELSE NoTime,
                     is_active |-> h # "inactive"]
          daily == [id |-> IF h = "none" THEN 1 ELSE 2,
                    vehicle_type_id |-> NONE, zone_id |-> NONE,
                    rate_type |-> "daily", amount |-> 250000,
                    grace_period_minutes |-> 15,
                    effective_from |-> 0, effective_to |-> NoTime,
                    peak_multiplier |-> 100, peak_start_time |-> NoTime,
                    peak_end_time |-> NoTime, is_active |-> d # "inactive"]
      IN  (IF h = "none" THEN << >> ELSE << hourly >>)
            \o (IF d = "none" THEN << >> ELSE << daily >>) :
      h \in HourlyOptions, d \in DailyOptions }

InitSparseRates ==
    /\ spaces = [s \in SpaceIds |->
                    [status |-> "available", zone_id |-> 1, is_ev_charging |-> FALSE]]
    /\ stations = [s \in SpaceIds |-> NoStation]
    /\ vehicles = [p \in Plates |-> IF p = 1 THEN DefaultVehicleTypeId ELSE NONE]
    /\ rates \in SparseRates
    /\ discounts = InitDiscounts
    /\ reservations = << >>
    /\ sessions = << >>
    /\ payments = << >>
    /\ charging = << >>
    /\ memberships = << >>
    /\ now = 0
    /\ last = Response("init", "ok")
    /\ txn = [c \in Clients |-> NoTxn]

NextSparseRates ==
    \/ DoDeskEntry
    \/ DoCalculateFee
    \/ DoTick

SpecSparseRates == InitSparseRates /\ [][NextSparseRates]_vars

\* ---- reservations that have reached a final status; the table may hold a
\* COMPLETED reservation from the start (no request of the service writes that
\* status).
StoredReservations ==
    { << >>,
      << [vehicle_id |-> 1, space_id |-> 2, zone_id |-> NONE,
          start_time |-> 0, end_time |-> 60, status |-> "completed"] >> }

InitSettled ==
    /\ spaces = [s \in SpaceIds |->
                    [status |-> "available", zone_id |-> 1, is_ev_charging |-> FALSE]]
    /\ stations = [s \in SpaceIds |-> NoStation]
    /\ vehicles = [p \in Plates |-> IF p = 1 THEN DefaultVehicleTypeId ELSE NONE]
    /\ rates = InitRates
    /\ discounts = InitDiscounts
    /\ reservations \in StoredReservations
    /\ sessions = << >>
    /\ payments = << >>
    /\ charging = << >>
    /\ memberships = << >>
    /\ now = 0
    /\ last = Response("init", "ok")
    /\ txn = [c \in Clients |-> NoTxn]

DoBook ==
    \E v \in Registered, sp \in SpaceIds :
        /\ CreateReservation(v, sp, NONE, 60, 120)
        /\ Len(reservations') <= MaxReservations

Amendments == {<<120, Unset, Unset>>, <<Unset, 60, 1>>, <<0, 120, 2>>}

DoAmendReservation ==
    \E id \in Ids(reservations), a \in Amendments :
        UpdateReservation(id, a[1], a[2], a[3])

NextSettled ==
    \/ DoBook
    \/ DoAmendReservation
    \/ DoCancelReservation
    \/ DoCheckIn
    \/ DoTick

SpecSettled == InitSettled /\ [][NextSettled]_vars

\* ---- payments that are refused: unknown sessions, paid sessions, short amounts
DoPayAny ==
    \E id \in 1 .. MaxDeskSessions + 1, code \in {"", "save", "none"}, amount \in Tenders :
        /\ ProcessPayment(id, code, amount)
        /\ Len(payments') <= MaxPayments

NextRefusedPayments ==
    \/ DoDeskEntry
    \/ DoPayAny
    \/ DoTick

SpecRefusedPayments == InitDiscountDesk /\ [][NextRefusedPayments]_vars

\* ------------------------------------------------------------ memberships
\* A date: days since the first day of the model, plus whole calendar months
\* (what relativedelta(months=n) adds).
Today == [days |-> now \div (24 * 60), months |-> 0]

AddMonths(d, duration_months) == [d EXCEPT !.months = @ + duration_months]

\* The membership_plans table: a one-month plan on offer and a withdrawn one.
MembershipPlans ==
    << [duration_months |-> 1, is_active |-> TRUE],
       [duration_months |-> 1, is_active |-> FALSE] >>

Users == {1, 2}

ActiveMembershipsOf(user_id) ==
    {i \in Ids(memberships) : memberships[i].user_id = user_id
                              /\ memberships[i].status = "active"}

SubscribeToPlan(user_id, plan_id) ==
    IF plan_id \notin Ids(MembershipPlans)
    THEN Reject("subscribe_to_plan", "not_found")
    ELSE IF ~MembershipPlans[plan_id].is_active
    THEN Reject("subscribe_to_plan", "validation_error")
    ELSE IF Cardinality(ActiveMembershipsOf(user_id)) > 1
    THEN Reject("subscribe_to_plan", "multiple_results")
    ELSE IF ActiveMembershipsOf(user_id) # {}
    THEN Reject("subscribe_to_plan", "conflict_error")
    ELSE /\ memberships' = Append(memberships,
                [user_id |-> user_id, plan_id |-> plan_id, start_date |-> Today,
                 end_date |-> AddMonths(Today, MembershipPlans[plan_id].duration_months),
                 status |-> "active", used_hours |-> 0])
         /\ last' = [Response("subscribe_to_plan", "ok") EXCEPT !.id = Len(memberships) + 1]
         /\ UNCHANGED <<spaces, stations, vehicles, rates, discounts, reservations, sessions,
                        payments, charging, now, txn>>

CancelMembership(membership_id) ==
    IF membership_id \notin Ids(memberships)
    THEN Reject("cancel_membership", "not_found")
    ELSE IF memberships[membership_id].status # "active"
    THEN Reject("cancel_membership", "validation_error")
    ELSE /\ memberships' = [memberships EXCEPT ![membership_id].status = "cancelled"]
         /\ last' = [Response("cancel_membership", "ok") EXCEPT !.id = membership_id]
         /\ UNCHANGED <<spaces, stations, vehicles, rates, discounts, reservations, sessions,
                        payments, charging, now, txn>>

RenewMembership(membership_id) ==
    IF membership_id \notin Ids(memberships)
    THEN Reject("renew_membership", "not_found")
    ELSE LET m == memberships[membership_id]
             months == MembershipPlans[m.plan_id].duration_months
             renewed == IF m.status = "active"
                        THEN [m EXCEPT !.end_date = AddMonths(m.end_date, months)]
                        ELSE [m EXCEPT !.start_date = Today,
                                       !.end_date = AddMonths(Today, months),
                                       !.status = "active",
                                       !.used_hours = 0]
         IN  /\ memberships' = [memberships EXCEPT ![membership_id] = renewed]
             /\ last' = [Response("renew_membership", "ok") EXCEPT !.id = membership_id]
             /\ UNCHANGED <<spaces, stations, vehicles, rates, discounts, reservations,
                            sessions, payments, charging, now, txn>>

\* The routes /memberships/{id}/cancel and /renew answer a user who is not the
\* owner with an authorization error (no user of the model is an admin).
OwnedBy(user, membership_id) ==
    IF membership_id \notin Ids(memberships) THEN "not_found"
    ELSE IF memberships[membership_id].user_id # user THEN "authorization_error"
    ELSE "pass"

DoSubscribe ==
    \E user \in Users, plan_id \in 1 .. Len(MembershipPlans) + 1 :
        /\ SubscribeToPlan(user, plan_id)
        /\ Len(memberships') <= MaxMemberships

DoCancelMembership ==
    \E user \in Users, id \in 1 .. MaxMemberships :
        IF OwnedBy(user, id) # "pass"
        THEN Reject("cancel_membership", OwnedBy(user, id))
        ELSE CancelMembership(id)

DoRenewMembership ==
    \E user \in Users, id \in 1 .. MaxMemberships :
        IF OwnedBy(user, id) # "pass"
        THEN Reject("renew_membership", OwnedBy(user, id))
        ELSE /\ RenewMembership(id)
             /\ memberships'[id].end_date.months <= MaxMonths

NextMemberships ==
    \/ DoSubscribe
    \/ DoCancelMembership
    \/ DoRenewMembership
    \/ DoTick

SpecMemberships == Init /\ [][NextMemberships]_vars

\* ---- charging: both spaces have a station; the second may be out of service.
InitCharging ==
    /\ spaces = [s \in SpaceIds |->
                    [status |-> "available", zone_id |-> 1, is_ev_charging |-> TRUE]]
    /\ stations \in {[s \in SpaceIds |->
                        [id |-> s, status |-> IF s = 1 THEN "available" ELSE st,
                         charger_type |-> "level2", power_kw |-> 10,
                         price_per_kwh |-> 3000]] :
                     st \in {"available", "offline"}}
    /\ vehicles = [p \in Plates |-> IF p = 1 THEN DefaultVehicleTypeId ELSE NONE]
    /\ rates = InitRates
    /\ discounts = InitDiscounts
    /\ reservations = << >>
    /\ sessions = << >>
    /\ payments = << >>
    /\ charging = << >>
    /\ memberships = << >>
    /\ now = 0
    /\ last = Response("init", "ok")
    /\ txn = [c \in Clients |-> NoTxn]

DoPlugIn ==
    \E station_id \in SpaceIds \cup {3}, v \in EvVehicles :
        /\ StartCharging(station_id, v, NONE)
        /\ Len(charging') <= MaxPlugIns

DoUnplug == \E id \in 1 .. MaxPlugIns : StopCharging(id, "")

NextCharging ==
    \/ DoPlugIn
    \/ DoUnplug
    \/ DoTick

SpecCharging == InitCharging /\ [][NextCharging]_vars

\* ---- the overlap filter: one reservation of space 1 is stored, with any window
\* on a grid of four moments; requests use every window of the grid.
Moments == {0, 10, 20, 30}

StoredWindows ==
    {w \in { << [vehicle_id |-> 1, space_id |-> 1, zone_id |-> NONE,
                 start_time |-> s, end_time |-> e, status |-> st] >> :
             s \in Moments, e \in Moments,
             st \in {"pending", "confirmed", "cancelled"} } :
        w[1].start_time < w[1].end_time}

InitOverlap ==
    /\ spaces = [s \in SpaceIds |->
                    [status |-> "available", zone_id |-> 1, is_ev_charging |-> FALSE]]
    /\ stations = [s \in SpaceIds |-> NoStation]
    /\ vehicles = [p \in Plates |-> IF p = 1 THEN DefaultVehicleTypeId ELSE NONE]
    /\ rates = InitRates
    /\ discounts = InitDiscounts
    /\ reservations \in StoredWindows
    /\ sessions = << >>
    /\ payments = << >>
    /\ charging = << >>
    /\ memberships = << >>
    /\ now = 0
    /\ last = Response("init", "ok")
    /\ txn = [c \in Clients |-> NoTxn]

DoCheckAvailability ==
    \E s \in Moments, e \in Moments, zone_id \in {NONE, 1} : CheckAvailability(s, e, zone_id)

DoCreateOnGrid ==
    \E v \in Registered, sp \in SpaceIds, s \in Moments, e \in Moments :
        /\ CreateReservation(v, sp, NONE, s, e)
        /\ Len(reservations') <= MaxReservations

NextOverlap ==
    \/ DoCheckAvailability
    \/ DoCreateOnGrid

SpecOverlap == InitOverlap /\ [][NextOverlap]_vars

\* ---- arrivals with a reservation: booked on a space or on the zone, next to
\* drive-in entries that take spaces of the zone.
DoArrive ==
    \E v \in Registered, sp \in SpaceIds \cup {NONE} :
        /\ CreateReservation(v, sp, IF sp = NONE THEN 1 ELSE NONE, 60, 120)
        /\ Len(reservations') <= MaxReservations

NextArrivals ==
    \/ DoArrive
    \/ DoCancelReservation
    \/ DoCheckIn
    \/ DoCreateEntry

SpecArrivals == Init /\ [][NextArrivals]_vars

\* ---- the spaces of the car park: entries, bookings, arrivals, moves, exits and
\* cancellations, next to the administrative edits that take a space out of
\* service and bring it back.
AdminStatuses == {"available", "maintenance", "out_of_service"}

DoUpdateSpace == \E sp \in SpaceIds, status \in AdminStatuses : UpdateSpace(sp, status)

NextSpaces ==
    \/ DoCreateEntry
    \/ DoReserve
    \/ DoCheckIn
    \/ DoAssignSpace
    \/ DoProcessExit
    \/ DoCancelReservation
    \/ DoUpdateSpace

SpecSpaces == Init /\ [][NextSpaces]_vars

\* ---- cancellations: bookings of a space or of the zone over two windows that
\* do not overlap, arrivals that occupy the booked spaces, administrative edits, and
\* cancellations of any of the bookings.
Windows == {<<60, 120>>, <<120, 180>>}

DoBookSpace ==
    \E v \in Registered, sp \in SpaceIds \cup {NONE}, w \in Windows :
        /\ CreateReservation(v, sp, IF sp = NONE THEN 1 ELSE NONE, w[1], w[2])
        /\ Len(reservations') <= MaxReservations

NextCancellations ==
    \/ DoBookSpace
    \/ DoCancelReservation
    \/ DoCheckIn
    \/ DoUpdateSpace

SpecCancellations == Init /\ [][NextCancellations]_vars

\* ---- promo codes at the chargers: a LEVEL2 and a DC fast station, an EV
\* (vehicle 1) and a petrol car (vehicle 2), parked on the EV space, on a plain
\* space or waiting without a space; a 50% code that may be withdrawn and a
\* fixed-amount code.
PromoDiscounts ==
    { << [code |-> "SAVE", discount_type |-> "percentage", value |-> 50,
          valid_from |-> 0, valid_to |-> 100000, max_uses |-> NoLimit,
          current_uses |-> 0, is_active |-> active],
         [code |-> "FIX", discount_type |-> "fixed_amount", value |-> 75000,
          valid_from |-> 0, valid_to |-> 100000, max_uses |-> NoLimit,
          current_uses |-> 0, is_active |-> TRUE] >> :
      active \in BOOLEAN }

Waits == {110, 240}

InitPromo ==
    /\ \E held \in {2, NONE} :
        /\ spaces = [s \in SpaceIds |->
                        [status |-> IF s = 1 \/ held = 2 THEN "occupied" ELSE "available",
                         zone_id |-> 1, is_ev_charging |-> s = 1]]
        /\ sessions = << [vehicle_id |-> 1, space_id |-> 1, reservation_id |-> NONE,
                          entry_time |-> 0, exit_time |-> NoTime, status |-> "active"],
                         [vehicle_id |-> 2, space_id |-> held, reservation_id |-> NONE,
                          entry_time |-> 0, exit_time |-> NoTime, status |-> "active"] >>
    /\ stations = [s \in SpaceIds |->
                    [id |-> s, status |-> "available",
                     charger_type |-> IF s = 1 THEN "level2" ELSE "dc_fast",
                     power_kw |-> IF s = 1 THEN 10 ELSE 20,
                     price_per_kwh |-> IF s = 1 THEN 3000 ELSE 2000]]
    /\ vehicles = [p \in Plates |-> DefaultVehicleTypeId]
    /\ rates = InitRates
    /\ discounts \in PromoDiscounts
    /\ reservations = << >>
    /\ payments = << >>
    /\ charging = << >>
    /\ memberships = << >>
    /\ now = 0
    /\ last = Response("init", "ok")
    /\ txn = [c \in Clients |-> NoTxn]

DoPlugInParked ==
    \E station_id \in SpaceIds, v \in Plates, id \in {NONE, 1, 2, 3} :
        /\ StartCharging(station_id, v, id)
        /\ Len(charging') <= MaxCharging

DoWait == \E m \in Waits : now + m <= ChargeHorizon /\ Tick(m)

DoStopWithPromo ==
    \E id \in Ids(charging), p \in {"", "save", "FIX", "none"} : StopCharging(id, p)

NextPromo ==
    \/ DoPlugInParked
    \/ DoWait
    \/ DoStopWithPromo

SpecPromo == InitPromo /\ [][NextPromo]_vars

\* Every request of the model, one at a time.
Next ==
    \/ DoCreateReservation
    \/ DoUpdateReservation
    \/ DoCancelReservation
    \/ DoCheckIn
    \/ DoCreateEntry
    \/ DoAssignSpace
    \/ DoProcessExit
    \/ DoCompleteSession
    \/ DoProcessPayment
    \/ DoValidateExit
    \/ DoValidateDiscount
    \/ DoCalculateFee
    \/ DoStartCharging
    \/ DoStopCharging
    \/ DoTick

Spec == Init /\ [][Next]_vars

\* ================================================================= claims
\* C1: a create_reservation request for a space and a window [start, end), start
\* not in the past, is rejected with a conflict error and creates no reservation
\* when a PENDING or CONFIRMED reservation of that space overlaps the window
\* (start < its end and its start < end), and is accepted otherwise, so windows
\* that only touch are both accepted.
C1_OverlapRejectedWithConflict ==
    [][last'.op = "create_reservation" =>
       \A v \in Plates, sp \in SpaceIds, s \in Hours, e \in Hours :
        (s < e /\ s >= now /\ CreateReservation(v, sp, NONE, s, e))
            => IF \E i \in Ids(reservations) :
                    /\ reservations[i].space_id = sp
                    /\ reservations[i].status \in {"pending", "confirmed"}
                    /\ reservations[i].start_time < e
                    /\ s < reservations[i].end_time
               THEN last'.result = "conflict_error" /\ reservations' = reservations
               ELSE last'.result = "ok" /\ Len(reservations') = Len(reservations) + 1
      ]_vars

\* C2: no two PENDING or CONFIRMED reservations of the same space have overlapping
\* [start_time, end_time) intervals.
C2_NoOverlappingStandingReservations ==
    \A i \in Ids(reservations), j \in Ids(reservations) :
        (/\ i # j
         /\ reservations[i].status \in {"pending", "confirmed"}
         /\ reservations[j].status \in {"pending", "confirmed"}
         /\ reservations[i].space_id # NONE
         /\ reservations[i].space_id = reservations[j].space_id)
            => ~(/\ reservations[i].start_time < reservations[j].end_time
                 /\ reservations[j].start_time < reservations[i].end_time)

\* C3: the overlap check and the insert of a reservation behave as one atomic step:
\* whenever a request writes its reservation, no PENDING or CONFIRMED reservation
\* of the space overlaps its window, so of two concurrent overlapping requests at
\* most one is accepted.
C3_CheckAndInsertAtomic ==
    [][\A c \in Clients :
        (FinishCreateReservation(c) /\ last'.result = "ok")
            => ~\E i \in Ids(reservations) :
                    /\ reservations[i].space_id = txn[c].space_id
                    /\ reservations[i].status \in {"pending", "confirmed"}
                    /\ reservations[i].start_time < txn[c].end_time
                    /\ txn[c].start_time < reservations[i].end_time
      ]_vars

\* C4: each vehicle has at most one parking session with status ACTIVE.
C4_OneActiveSessionPerVehicle ==
    \A p \in Plates : Cardinality(ActiveSessionsOf(p)) <= 1

\* C5: create_entry for a plate whose vehicle has an ACTIVE session is rejected
\* with a validation error and creates no session; process_exit leaves the session
\* ACTIVE; create_entry for a plate without an ACTIVE session succeeds.
C5_DuplicateEntryRejected ==
    [][/\ \A p \in Plates :
            CreateEntry(p) =>
                IF ActiveSessionsOf(p) # {}
                THEN last'.result = "validation_error" /\ sessions' = sessions
                ELSE last'.result = "ok" /\ Len(sessions') = Len(sessions) + 1
       /\ \A id \in Ids(sessions) :
            (ProcessExit(id, NONE) /\ sessions[id].status = "active")
                => sessions'[id].status = "active"
      ]_vars

\* C6: no parking space is the space_id of two different sessions that are both
\* ACTIVE and have no exit_time.
C6_SpaceHeldByOneSession ==
    \A i \in Ids(sessions), j \in Ids(sessions) :
        (i # j /\ sessions[i].status = "active" /\ sessions[j].status = "active"
              /\ sessions[i].exit_time = NoTime /\ sessions[j].exit_time = NoTime
              /\ sessions[i].space_id # NONE)
            => sessions[i].space_id # sessions[j].space_id

\* C7: a session never has more than one COMPLETED payment, and a process_payment
\* call on a session that already has a COMPLETED payment is rejected with the
\* payment error "Session has already been paid" and records nothing.
C7_PaidOnce ==
    /\ \A id \in Ids(sessions) : Cardinality(CompletedPayments(id)) <= 1
    /\ [][/\ \A id \in Ids(sessions') :
                Cardinality({i \in Ids(payments') :
                                payments'[i].session_id = id
                                /\ payments'[i].status = "completed"}) <= 1
          /\ last'.op = "process_payment" =>
                \A id \in {i \in Ids(sessions) : CompletedPayments(i) # {}} :
                \A code \in Codes \cup {""}, amount \in Tenders :
                    ProcessPayment(id, code, amount)
                        => /\ last'.result = "payment_error"
                           /\ last'.message = "Session has already been paid"
                           /\ payments' = payments
                           /\ discounts' = discounts
         ]_vars

\* A second process_payment on a paid session has just been turned down.
C7_Witness ==
    /\ last.op = "process_payment"
    /\ last.message = "Session has already been paid"
    /\ \E id \in Ids(sessions) : Cardinality(CompletedPayments(id)) = 1

\* C8: when two process_payment requests for the same unpaid session run
\* concurrently, the session ends with at most one COMPLETED payment.
C8_ConcurrentPaidOnce ==
    \A id \in Ids(sessions) :
        Cardinality({i \in Ids(payments) : payments[i].session_id = id
                                           /\ payments[i].status = "completed"}) < 2

\* C9: process_payment on an existing unpaid session is accepted, recording one
\* payment, when the amount tendered is at least max(0, fee total - discount
\* amount), the exact amount included, and is rejected with a payment error,
\* recording nothing, when the amount is smaller.
C9_AcceptedIffAmountCovers ==
    [][last'.op = "process_payment" =>
        \A id \in {i \in Ids(sessions) : CompletedPayments(i) = {}} :
        \A code \in Codes \cup {""}, amount \in Tenders :
            ProcessPayment(id, code, amount)
                => \E f \in CalculateFee(id, NoTime) :
                   LET validation == ValidateDiscount(code, TRUE, f.total)
                       discount_amount == IF code # "" /\ validation.is_valid
                                          THEN validation.discount_amount ELSE 0
                       due == Max2(0, f.total - discount_amount)
                   IN IF amount >= due
                      THEN /\ last'.result = "ok"
                           /\ Len(payments') = Len(payments) + 1
                           /\ payments'[Len(payments')].session_id = id
                           /\ payments'[Len(payments')].total_amount = due
                      ELSE /\ last'.result = "payment_error"
                           /\ payments' = payments
      ]_vars

\* A payment of a positive amount has been accepted with a discount applied.
C9_Witness ==
    /\ last.op = "process_payment"
    /\ last.result = "ok"
    /\ last.amount > 0
    /\ payments[last.id].discount_amount > 0

\* C10: validate_exit answers can_exit = true exactly when the session has a
\* COMPLETED payment; otherwise can_exit and is_paid are false and the amount due
\* is the total calculate_fee gives for the session at that moment.
C10_ExitOnlyWhenPaid ==
    [][last'.op = "validate_exit" => \A t \in Ids(sessions) :
        ValidateExit(t)
            => /\ last'.result = "ok"
               /\ last'.can_exit <=> (CompletedPayments(t) # {})
               /\ CompletedPayments(t) = {}
                    => /\ ~last'.is_paid
                       /\ \E f \in CalculateFee(t, NoTime) : last'.amount = f.total
      ]_vars

\* validate_exit has refused an unpaid session with a positive amount due while
\* another session is paid.
C10_Witness ==
    /\ last.op = "validate_exit"
    /\ ~last.can_exit
    /\ ~last.is_paid
    /\ last.amount > 0
    /\ CompletedPayments(last.id) = {}
    /\ payments # << >>

\* C11: only a successful process_payment that applies a valid code changes a
\* discount, and it raises the current_uses of that discount by exactly one;
\* validate_discount, stop_charging with a promo code, a payment without a code, a
\* payment with an invalid code and a refused payment leave every discount as it
\* was.
C11_OnlyPaymentCountsUse ==
    [][/\ discounts' # discounts
            => /\ last'.op = "process_payment"
               /\ last'.result = "ok"
               /\ Len(payments') = Len(payments) + 1
       /\ last'.op = "process_payment"
            => \A id \in Ids(sessions) : \A code \in Codes \cup {"", "none"} :
               \A amount \in {0, 50000} :
                 ProcessPayment(id, code, amount)
                    => discounts' =
                        IF last'.result = "ok" /\ ValidateDiscount(code, FALSE, 0).is_valid
                        THEN [discounts EXCEPT
                                ![ValidateDiscount(code, FALSE, 0).discount_id].current_uses
                                    = @ + 1]
                        ELSE discounts
      ]_vars

\* A payment has applied a code, and a charging session was stopped, with the
\* code's use count at one.
C11_Witness ==
    /\ \E i \in Ids(payments) :
            /\ payments[i].discount_id # NONE
            /\ discounts[payments[i].discount_id].current_uses = 1
    /\ \E c \in Ids(charging) : charging[c].status = "completed"

\* C12: for every discount whose max_uses is set, whatever its value, starting
\* from current_uses <= max_uses, current_uses <= max_uses holds after every
\* validate_discount and process_payment call, and current_uses never decreases.
C12_UsesWithinLimit ==
    [][\A i \in Ids(discounts) :
        /\ discounts'[i].current_uses >= discounts[i].current_uses
        /\ (discounts[i].max_uses # NoLimit
                /\ discounts[i].current_uses <= discounts[i].max_uses)
            => discounts'[i].current_uses <= discounts'[i].max_uses
      ]_vars

\* C13: when several process_payment requests for different sessions apply the
\* same code at once, their validation reads and use-count writes interleaved,
\* the code's current_uses never exceeds its max_uses.
C13_ConcurrentUsesWithinLimit ==
    \A i \in Ids(discounts) :
        discounts[i].max_uses # NoLimit
            => discounts[i].current_uses <= discounts[i].max_uses

\* C14: validate_discount(code) answers is_valid = true exactly when a discount
\* whose code is the upper-cased input exists, is active, has
\* valid_from <= now <= valid_to, and has max_uses unset or
\* current_uses < max_uses; otherwise is_valid is false and the message is that
\* of the first failing check, in the order unknown code, not active, not yet
\* valid, expired, usage limit reached.
C14_ValidIffAllChecksPass ==
    [][last'.op = "validate_discount" => \A code \in Codes \cup {"none"} :
        ValidateDiscountRequest(code, NONE)
            => LET found == {i \in Ids(discounts) : discounts[i].code = Upper(code)}
                   d == discounts[CHOOSE i \in found : TRUE]
               IN  /\ last'.is_valid
                        <=> /\ found # {}
                            /\ d.is_active
                            /\ d.valid_from <= now
                            /\ now <= d.valid_to
                            /\ d.max_uses = NoLimit \/ d.current_uses < d.max_uses
                   /\ ~last'.is_valid
                        => last'.message =
                            IF found = {} THEN "Invalid discount code"
                            ELSE IF ~d.is_active THEN "Discount is not active"
                            ELSE IF d.valid_from > now THEN "Discount is not yet valid"
                            ELSE IF d.valid_to < now THEN "Discount has expired"
                            ELSE "Discount usage limit reached"
      ]_vars

\* C15: every successful process_payment, whatever the type and value of the
\* discount (a fixed amount above the fee and a percentage above 100 included),
\* records total_amount = max(0, fee total - discount amount), which is never
\* negative, and the discount amount of a FIXED_AMOUNT discount is
\* min(value, fee total).
C15_TotalNeverNegative ==
    [][(last'.op = "process_payment" /\ last'.result = "ok"
            /\ Len(payments') = Len(payments) + 1)
        => LET payment == payments'[Len(payments')]
           IN  /\ payment.total_amount
                    = Max2(0, payment.amount - payment.discount_amount)
               /\ payment.total_amount >= 0
               /\ last'.amount = payment.total_amount
               /\ (payment.discount_id # NONE
                    /\ discounts[payment.discount_id].discount_type = "fixed_amount")
                    => payment.discount_amount
                        = Min2(discounts[payment.discount_id].value, payment.amount)
      ]_vars

\* A payment whose percentage discount exceeds the fee is recorded with a total
\* of zero.
C15_Witness ==
    \E i \in Ids(payments) :
        /\ payments[i].amount > 0
        /\ payments[i].discount_id # NONE
        /\ discounts[payments[i].discount_id].discount_type = "percentage"
        /\ payments[i].discount_amount > payments[i].amount
        /\ payments[i].total_amount = 0

\* C16: for an hourly rate with a grace period of g minutes, for every g >= 0,
\* g = 0 included, calculate_fee returns total = 0 with the single line item
\* "Within grace period" for a session of exactly g minutes, and total > 0 for a
\* session of g + 1 minutes.
C16_GraceBoundary ==
    [][last'.op = "calculate_fee" => \A id \in Ids(sessions) :
        \A exit_time \in {e \in ExitTimes \cup {NoTime} :
                            last'.fee.duration_minutes
                                = (IF e = NoTime THEN now ELSE e)
                                    - sessions[id].entry_time} :
        CalculateFeeRequest(id, exit_time)
            => LET g == rates[1].grace_period_minutes
                   m == last'.fee.duration_minutes
               IN  /\ m = g
                        => /\ last'.fee.total = 0
                           /\ last'.fee.breakdown
                                = << [description |-> "Within grace period",
                                      amount |-> 0] >>
                   /\ m = g + 1 => last'.fee.total > 0
      ]_vars

\* C16, amended: the same for every g >= 1; a grace period of 0 means no grace
\* period, so that a session of 0 minutes is billed (total > 0, no "Within grace
\* period" item), as is one of 1 minute.
C16_GraceBoundaryFromOne ==
    [][last'.op = "calculate_fee" => \A id \in Ids(sessions) :
        \A exit_time \in {e \in ExitTimes \cup {NoTime} :
                            last'.fee.duration_minutes
                                = (IF e = NoTime THEN now ELSE e)
                                    - sessions[id].entry_time} :
        CalculateFeeRequest(id, exit_time)
            => LET g == rates[1].grace_period_minutes
                   m == last'.fee.duration_minutes
               IN  /\ (g >= 1 /\ m = g)
                        => /\ last'.fee.total = 0
                           /\ last'.fee.breakdown
                                = << [description |-> "Within grace period",
                                      amount |-> 0] >>
                   /\ m = g + 1 => last'.fee.total > 0
                   /\ (g = 0 /\ m = 0)
                        => /\ last'.fee.total > 0
                           /\ \A i \in DOMAIN last'.fee.breakdown :
                                last'.fee.breakdown[i].description
                                    # "Within grace period"
      ]_vars

\* calculate_fee has answered 0 for a session of exactly the grace period.
C16_Witness ==
    /\ last.op = "calculate_fee"
    /\ last.result = "ok"
    /\ rates[1].grace_period_minutes >= 1
    /\ last.fee.duration_minutes = rates[1].grace_period_minutes
    /\ last.fee.total = 0

\* C17: with an hourly rate r and a daily cap d, off peak and without EV
\* charging, every session of m minutes beyond the grace period costs at most
\* d * ceil(m / 1440) and at most r * hours; in particular n full days cost at most
\* n * d: 3 days at $5/h with a $25 cap cost $75.00, 5 days with a $30 cap at most
\* $150.
C17_DailyCapBoundsTotal ==
    [][last'.op = "calculate_fee" => \A id \in Ids(sessions) :
        \A exit_time \in {e \in ExitTimes \cup {NoTime} :
                            last'.fee.duration_minutes
                                = (IF e = NoTime THEN now ELSE e)
                                    - sessions[id].entry_time} :
        (/\ CalculateFeeRequest(id, exit_time)
         /\ Len(rates) = 2
         /\ last'.fee.duration_minutes > rates[1].grace_period_minutes
         /\ LET t == (IF exit_time = NoTime THEN now ELSE exit_time) % 1440
                s == rates[1].peak_start_time
                e == rates[1].peak_end_time
            IN  \/ s = NoTime
                \/ e = NoTime
                \/ (s <= e /\ ~(s <= t /\ t <= e))
                \/ (s > e /\ ~(t >= s \/ t <= e)))
            => LET m == last'.fee.duration_minutes
                   r == rates[1].amount
                   d == rates[2].amount
                   days == (m + 1439) \div 1440
                   hours == IF m <= 60 THEN 1 ELSE (m + 59) \div 60
               IN  /\ last'.fee.total <= d * days
                   /\ last'.fee.total <= r * hours
                   /\ m % 1440 = 0 => last'.fee.total <= (m \div 1440) * d
                   /\ (m = 4320 /\ r = 50000 /\ d = 250000)
                        => last'.fee.total = 750000
                   /\ (m = 7200 /\ d = 300000) => last'.fee.total <= 1500000
      ]_vars

\* calculate_fee has priced three full days at three times the daily cap.
C17_Witness ==
    /\ last.op = "calculate_fee"
    /\ last.result = "ok"
    /\ Len(rates) = 2
    /\ last.fee.duration_minutes = 4320
    /\ last.fee.total = 3 * rates[2].amount
    /\ last.fee.total < last.fee.base_fee

\* C19: outside the grace period calculate_fee bills hours =
\* max(1, ceil(duration / 60)) and base_fee = effective hourly rate * hours:
\* 190 minutes at $5/h are 4 hours and $20.00, 60 minutes are 1 hour, 61 minutes
\* are 2 hours, 0 minutes are 1 hour.
C19_HoursRoundedUp ==
    [][last'.op = "calculate_fee" => \A id \in Ids(sessions) :
        \A exit_time \in {e \in ExitTimes \cup {NoTime} :
                            last'.fee.duration_minutes
                                = (IF e = NoTime THEN now ELSE e)
                                    - sessions[id].entry_time} :
        (/\ CalculateFeeRequest(id, exit_time)
         /\ ~(rates[1].grace_period_minutes # 0
                /\ last'.fee.duration_minutes <= rates[1].grace_period_minutes))
            => LET m == last'.fee.duration_minutes
                   ceiling == CHOOSE h \in -1 .. 121 : 60 * (h - 1) < m /\ m <= 60 * h
                   hours == IF ceiling < 1 THEN 1 ELSE ceiling
                   peak == IsPeak(rates[1], IF exit_time = NoTime THEN now ELSE exit_time)
                   effective_hourly_rate ==
                        IF peak /\ rates[1].peak_multiplier # 0
                        THEN (rates[1].amount * rates[1].peak_multiplier) \div 100
                        ELSE rates[1].amount
               IN  /\ last'.fee.base_fee = effective_hourly_rate * hours
                   /\ (m = 190 /\ ~peak) => last'.fee.base_fee = 200000
                   /\ (m = 60 /\ ~peak) => last'.fee.base_fee = 50000
                   /\ (m = 61 /\ ~peak) => last'.fee.base_fee = 100000
                   /\ (m = 0 /\ ~peak) => last'.fee.base_fee = 50000
      ]_vars

\* calculate_fee has billed 190 minutes as four hours.
C19_Witness ==
    /\ last.op = "calculate_fee"
    /\ last.result = "ok"
    /\ last.fee.duration_minutes = 190
    /\ last.fee.base_fee = 4 * rates[1].amount

\* C18: among the active rates of the requested rate_type that are effective
\* now, get_applicable_rate returns a rate of the first non-empty tier in the
\* order exact (vehicle type and zone), vehicle type only, zone only, generic, and
\* within that tier one with the latest effective_from; it returns none only when
\* all four tiers are empty, and never an inactive, out-of-window or less
\* specific rate.
C18_MostSpecificRate ==
    [][last'.op = "get_applicable_rate" =>
        \A vehicle_type_id \in {NONE, 1, 2} : \A zone_id \in {NONE, 1} :
        \A rate_type \in {"hourly", "daily"} :
        ResolveRate(vehicle_type_id, zone_id, rate_type)
            => LET eligible == {i \in Ids(rates) :
                        /\ rates[i].is_active
                        /\ rates[i].rate_type = rate_type
                        /\ rates[i].effective_from <= now
                        /\ rates[i].effective_to = NoTime \/ rates[i].effective_to >= now}
                   Tier(k) ==
                        {i \in eligible :
                            /\ rates[i].vehicle_type_id
                                = (IF k \in {1, 2} THEN vehicle_type_id ELSE NONE)
                            /\ rates[i].zone_id = (IF k \in {1, 3} THEN zone_id ELSE NONE)
                            /\ k \in {1, 2} => vehicle_type_id # NONE
                            /\ k \in {1, 3} => zone_id # NONE}
                   nonempty == {k \in 1 .. 4 : Tier(k) # {}}
               IN  IF nonempty = {} THEN last'.id = NONE
                   ELSE LET first == CHOOSE k \in nonempty : \A j \in nonempty : k <= j
                        IN  /\ last'.id \in Tier(first)
                            /\ \A j \in Tier(first) :
                                rates[j].effective_from
                                    <= rates[last'.id].effective_from
      ]_vars

\* With eligible rates in the vehicle-type tier and in less specific tiers, and an
\* inactive exact rate, get_applicable_rate has returned a vehicle-type rate.
C18_Witness ==
    /\ last.op = "get_applicable_rate"
    /\ last.id # NONE
    /\ rates[last.id].vehicle_type_id = 1
    /\ rates[last.id].zone_id = NONE
    /\ ~rates[1].is_active
    /\ \E i \in Ids(rates) :
            /\ rates[i].is_active
            /\ rates[i].rate_type = "hourly"
            /\ rates[i].vehicle_type_id = NONE
            /\ rates[i].zone_id = 1
            /\ rates[i].effective_from <= now
            /\ rates[i].effective_to = NoTime

\* C20: the peak multiplier applies exactly when the hourly rate defines both
\* peak_start_time and peak_end_time and the clock time of the end of the billed
\* interval lies in the window (start <= t <= end, or, for a window across
\* midnight, t >= start or t <= end); when it applies every billed hour is charged
\* amount * peak_multiplier, and the base amount and the surcharge appear as two
\* line items whose sum is base_fee.
C20_PeakAppliesInWindow ==
    [][last'.op = "calculate_fee" => \A id \in Ids(sessions) :
        \A exit_time \in {e \in ExitTimes \cup {NoTime} :
                            last'.fee.duration_minutes
                                = (IF e = NoTime THEN now ELSE e)
                                    - sessions[id].entry_time} :
        (/\ CalculateFeeRequest(id, exit_time)
         /\ ~(rates[1].grace_period_minutes # 0
                /\ last'.fee.duration_minutes <= rates[1].grace_period_minutes))
            => LET t == (IF exit_time = NoTime THEN now ELSE exit_time) % 1440
                   s == rates[1].peak_start_time
                   e == rates[1].peak_end_time
                   k == rates[1].peak_multiplier
                   in_window == /\ s # NoTime
                                /\ e # NoTime
                                /\ \/ s <= e /\ s <= t /\ t <= e
                                   \/ s > e /\ (t >= s \/ t <= e)
                   m == last'.fee.duration_minutes
                   hours == IF m <= 60 THEN 1 ELSE (m + 59) \div 60
                   fee == last'.fee
               IN  /\ in_window
                        => /\ fee.base_fee = ((rates[1].amount * k) \div 100) * hours
                           /\ Len(fee.breakdown) = 2
                           /\ fee.breakdown[1].amount = rates[1].amount * hours
                           /\ fee.breakdown[1].amount + fee.breakdown[2].amount
                                = fee.base_fee
                   /\ ~in_window => fee.base_fee = rates[1].amount * hours
      ]_vars

\* C20, amended: the multiplier applies exactly when both times are defined, the
\* end of the interval lies in the window and peak_multiplier is not 0 (a
\* multiplier of 0 is ignored); when it applies every billed hour is charged
\* amount * peak_multiplier; when moreover the multiplier is not 1 and the daily
\* cap does not lower the total, the base amount and the surcharge are two line
\* items whose sum is base_fee, and with a multiplier of 1 there is the single
\* parking item of base_fee.
C20_PeakAppliesUnlessZero ==
    [][last'.op = "calculate_fee" => \A id \in Ids(sessions) :
        \A exit_time \in {e \in ExitTimes \cup {NoTime} :
                            last'.fee.duration_minutes
                                = (IF e = NoTime THEN now ELSE e)
                                    - sessions[id].entry_time} :
        (/\ CalculateFeeRequest(id, exit_time)
         /\ ~(rates[1].grace_period_minutes # 0
                /\ last'.fee.duration_minutes <= rates[1].grace_period_minutes))
            => LET t == (IF exit_time = NoTime THEN now ELSE exit_time) % 1440
                   s == rates[1].peak_start_time
                   e == rates[1].peak_end_time
                   k == rates[1].peak_multiplier
                   in_window == /\ s # NoTime
                                /\ e # NoTime
                                /\ \/ s <= e /\ s <= t /\ t <= e
                                   \/ s > e /\ (t >= s \/ t <= e)
                   m == last'.fee.duration_minutes
                   hours == IF m <= 60 THEN 1 ELSE (m + 59) \div 60
                   fee == last'.fee
                   applies == in_window /\ k # 0
                   uncapped == fee.total = fee.base_fee
               IN  /\ applies
                        => fee.base_fee = ((rates[1].amount * k) \div 100) * hours
                   /\ ~applies => fee.base_fee = rates[1].amount * hours
                   /\ (applies /\ k # 100 /\ uncapped)
                        => /\ Len(fee.breakdown) = 2
                           /\ fee.breakdown[1].amount = rates[1].amount * hours
                           /\ fee.breakdown[2].description = "Peak hour surcharge"
                           /\ fee.breakdown[1].amount + fee.breakdown[2].amount
                                = fee.base_fee
                   /\ ((~applies \/ k = 100) /\ uncapped)
                        => fee.breakdown
                            = << [description |-> "Parking", amount |-> fee.base_fee] >>
      ]_vars

\* calculate_fee has charged the surcharge of a window across midnight as a
\* second line item.
C20_Witness ==
    /\ last.op = "calculate_fee"
    /\ last.result = "ok"
    /\ rates[1].peak_start_time > rates[1].peak_end_time
    /\ rates[1].peak_end_time # NoTime
    /\ Len(last.fee.breakdown) = 2
    /\ last.fee.breakdown[2].description = "Peak hour surcharge"
    /\ last.fee.breakdown[2].amount > 0
    /\ last.fee.base_fee > rates[1].amount

C22_RecordedExitTimeFirst ==
    [][last'.op = "calculate_fee" => \A id \in Ids(sessions) :
        \A exit_time \in ExitTimes \cup {NoTime} :
            CalculateFeeRequest(id, exit_time)
                => LET end_time == IF sessions[id].exit_time # NoTime
                                   THEN sessions[id].exit_time
                                   ELSE IF exit_time # NoTime THEN exit_time
                                   ELSE now
                   IN  last'.fee.duration_minutes = end_time - sessions[id].entry_time
      ]_vars

\* C22: calculate_fee bills up to the supplied exit_time whenever one is given;
\* the session's recorded exit_time is used only when none is supplied, and the
\* current time only when neither exists.
C22_SuppliedExitTimeFirst ==
    [][last'.op = "calculate_fee" => \A id \in Ids(sessions) :
        \A exit_time \in ExitTimes \cup {NoTime} :
            CalculateFeeRequest(id, exit_time)
                => LET end_time == IF exit_time # NoTime THEN exit_time
                                   ELSE IF sessions[id].exit_time # NoTime
                                   THEN sessions[id].exit_time
                                   ELSE now
                   IN  last'.fee.duration_minutes = end_time - sessions[id].entry_time
      ]_vars

\* calculate_fee has billed a session that left at minute 45 up to a later,
\* supplied time.
C22_Witness ==
    /\ last.op = "calculate_fee"
    /\ last.result = "ok"
    /\ last.id \in Ids(sessions)
    /\ sessions[last.id].exit_time = 45
    /\ sessions[last.id].entry_time = 0
    /\ last.fee.duration_minutes = 190

C24_FinalStatusIsFinal ==
    [][\A id \in Ids(reservations) :
        reservations[id].status \in {"checked_in", "completed", "cancelled"}
            => /\ reservations'[id].status = reservations[id].status
               /\ reservations'[id].start_time = reservations[id].start_time
               /\ reservations'[id].end_time = reservations[id].end_time
               /\ reservations'[id].space_id = reservations[id].space_id
               /\ \A a \in Amendments :
                        UpdateReservation(id, a[1], a[2], a[3])
                            => /\ last'.op = "update_reservation"
                               /\ last'.result = "validation_error"
               /\ CancelReservation(id)
                    => /\ last'.op = "cancel_reservation"
                       /\ last'.result = "validation_error"
               /\ CheckInReservation(id)
                    => /\ last'.op = "check_in_reservation"
                       /\ last'.result = "validation_error"
      ]_vars

\* A check-in of a cancelled reservation has just been refused, next to a
\* COMPLETED reservation.
C24_Witness ==
    /\ last.op = "check_in_reservation"
    /\ last.result = "validation_error"
    /\ Len(reservations) = 2
    /\ reservations[1].status = "completed"
    /\ reservations[2].status = "cancelled"

\* C25: a process_payment request that ends in an error (session not found,
\* session already paid, insufficient amount) leaves the store unchanged: no
\* payment row is added and every discount keeps its current_uses, also when a
\* valid discount code came with an insufficient amount.
C25_RefusedPaymentChangesNothing ==
    [][(last'.op = "process_payment" /\ last'.result # "ok")
            => /\ payments' = payments
               /\ \A d \in Ids(discounts) :
                    discounts'[d].current_uses = discounts[d].current_uses
               /\ store' = store
      ]_vars

\* A payment with a valid 50% code has just been refused as insufficient: $2.50
\* were required of a $5.00 fee, and the code is still unused.
C25_Witness ==
    /\ last.op = "process_payment"
    /\ last.result = "payment_error"
    /\ last.message = "Insufficient payment amount"
    /\ last.amount = 25000
    /\ discounts[1].current_uses = 0
    /\ payments = << >>

\* C26: after every subscribe_to_plan, cancel_membership and renew_membership each
\* user has at most one membership with status ACTIVE, and subscribe_to_plan by a
\* user who has an ACTIVE membership is answered with a conflict error and
\* creates nothing.
C26_OneActiveMembership ==
    [][/\ \A u \in Users :
            Cardinality({i \in Ids(memberships') :
                            /\ memberships'[i].user_id = u
                            /\ memberships'[i].status = "active"}) <= 1
       /\ \A u \in Users, plan_id \in Ids(MembershipPlans) :
            (/\ MembershipPlans[plan_id].is_active
             /\ \E i \in Ids(memberships) : /\ memberships[i].user_id = u
                                            /\ memberships[i].status = "active"
             /\ SubscribeToPlan(u, plan_id))
                => /\ last'.result = "conflict_error"
                   /\ memberships' = memberships
      ]_vars

\* C27: start_charging succeeds only on a station whose status is AVAILABLE and
\* sets it IN_USE; stop_charging succeeds only on a charging session in status
\* STARTED or CHARGING, sets it COMPLETED and its station AVAILABLE; after every
\* start_charging and stop_charging no station has two charging sessions in status
\* STARTED or CHARGING, and a stop of a session already stopped is answered with a
\* validation error.
C27_OneChargingSessionPerStation ==
    [][/\ \A st \in SpaceIds, v \in EvVehicles :
            StartCharging(st, v, NONE)
                => IF stations[st].status = "available"
                   THEN /\ last'.result = "ok"
                        /\ stations'[st].status = "in_use"
                        /\ Len(charging') = Len(charging) + 1
                        /\ charging'[Len(charging')].station_id = st
                        /\ charging'[Len(charging')].status \in {"started", "charging"}
                   ELSE /\ last'.result = "validation_error"
                        /\ charging' = charging
                        /\ stations' = stations
       /\ \A id \in Ids(charging) :
            StopCharging(id, "")
                => IF charging[id].status \in {"started", "charging"}
                   THEN /\ last'.result = "ok"
                        /\ charging'[id].status = "completed"
                        /\ stations'[charging[id].station_id].status = "available"
                   ELSE /\ last'.result = "validation_error"
                        /\ charging' = charging
                        /\ stations' = stations
       /\ \A st \in SpaceIds :
            Cardinality({i \in Ids(charging') :
                            /\ charging'[i].station_id = st
                            /\ charging'[i].status \in {"started", "charging"}}) <= 1
      ]_vars

\* A second stop of the same charging session has just been refused, after the
\* station served a second session.
C27_Witness ==
    /\ last.op = "stop_charging"
    /\ last.result = "validation_error"
    /\ Len(charging) >= 2
    /\ charging[1].station_id = charging[2].station_id
    /\ charging[1].status = "completed"

\* C28: for a stored reservation [s1, e1), s1 < e1, with status PENDING or
\* CONFIRMED, and a requested window [s2, e2), s2 < e2, on the same space, the
\* three-clause test of create_reservation and check_availability is true iff
\* s1 < e2 and s2 < e1; so create_reservation goes through, and
\* check_availability lists an AVAILABLE space, exactly when no such reservation
\* of the space has s1 < e2 and s2 < e1.
C28_ThreeClausesAreOverlap ==
    [][\A s2 \in Moments : \A e2 \in {m \in Moments : m > s2} :
        LET Overlapping(sp) ==
                \E i \in Ids(reservations) :
                    /\ reservations[i].space_id = sp
                    /\ reservations[i].status \in {"pending", "confirmed"}
                    /\ reservations[i].start_time < e2
                    /\ s2 < reservations[i].end_time
        IN  /\ \A i \in Ids(reservations) :
                reservations[i].start_time < reservations[i].end_time
                    => (OverlapClause(reservations[i], s2, e2)
                            <=> (/\ reservations[i].start_time < e2
                                 /\ s2 < reservations[i].end_time))
            /\ \A zone_id \in {NONE, 1} :
                CheckAvailability(s2, e2, zone_id)
                    => last'.available_spaces
                            = {sp \in SpaceIds : /\ spaces[sp].status = "available"
                                                 /\ ~Overlapping(sp)}
            /\ \A v \in Registered, sp \in SpaceIds :
                CreateReservation(v, sp, NONE, s2, e2)
                    => (last'.result = "ok" <=> ~Overlapping(sp))
      ]_vars

\* A reservation that starts at the moment another of the same space ends has
\* just been accepted.
C28_Witness ==
    /\ last.op = "create_reservation"
    /\ last.result = "ok"
    /\ Len(reservations) = 2
    /\ reservations[1].space_id = reservations[2].space_id
    /\ reservations[1].status \in {"pending", "confirmed"}
    /\ reservations[1].end_time = reservations[2].start_time

\* C29: process_exit records exit_time and sets the session's space AVAILABLE but
\* leaves the session ACTIVE; only complete_session makes a session COMPLETED; a
\* COMPLETED session never becomes ACTIVE again, and process_exit never succeeds
\* on it: asked for by its ticket, the answer is not found.
C29_CompletedIsTerminal ==
    [][/\ \A id \in Ids(sessions) :
            /\ sessions[id].status = "completed"
                => /\ sessions'[id].status = "completed"
                   /\ sessions'[id].exit_time = sessions[id].exit_time
                   /\ ProcessExit(id, NONE)
                        => /\ last'.result = "not_found"
                           /\ store' = store
            /\ (sessions[id].status # "completed" /\ sessions'[id].status = "completed")
                => /\ last'.op = "complete_session"
                   /\ last'.result = "ok"
                   /\ last'.id = id
       /\ \A ticket_number \in Ids(sessions) \cup {NONE}, p \in Plates \cup {NONE} :
            (/\ ticket_number = NONE \/ p = NONE
             /\ ProcessExit(ticket_number, p)
             /\ last'.result = "ok")
                => LET id == last'.id
                   IN  /\ sessions[id].status = "active"
                       /\ sessions'[id].status = "active"
                       /\ sessions'[id].exit_time = now
                       /\ sessions[id].space_id # NONE
                            => spaces'[sessions[id].space_id].status = "available"
      ]_vars

\* process_exit has just answered not found where every session is COMPLETED,
\* one of them after its exit was recorded.
C29_Witness ==
    /\ last.op = "process_exit"
    /\ last.result = "not_found"
    /\ \E id \in Ids(sessions) :
            /\ sessions[id].status = "completed"
            /\ sessions[id].exit_time # NoTime
    /\ \A id \in Ids(sessions) : sessions[id].status = "completed"

\* C30: check_in_reservation succeeds only for a CONFIRMED reservation; in one
\* step it creates exactly one ACTIVE session for the reservation's vehicle that
\* references the reservation, sets the assigned space (if any) OCCUPIED and the
\* reservation CHECKED_IN; after every step at most one parking session references
\* a given reservation.
C30_CheckInCreatesOneSession ==
    [][/\ \A id \in Ids(reservations) :
            CheckInReservation(id)
                => IF reservations[id].status = "confirmed"
                   THEN LET r == reservations[id]
                            new == sessions'[Len(sessions')]
                        IN  /\ last'.result = "ok"
                            /\ Len(sessions') = Len(sessions) + 1
                            /\ \A s \in Ids(sessions) : sessions'[s] = sessions[s]
                            /\ new.status = "active"
                            /\ new.vehicle_id = r.vehicle_id
                            /\ new.reservation_id = id
                            /\ r.space_id # NONE => new.space_id = r.space_id
                            /\ new.space_id # NONE
                                => spaces'[new.space_id].status = "occupied"
                            /\ reservations'[id].status = "checked_in"
                            /\ \A o \in Ids(reservations) \ {id} :
                                    reservations'[o] = reservations[o]
                   ELSE /\ last'.result = "validation_error"
                        /\ store' = store
       /\ \A id \in Ids(reservations') :
            Cardinality({s \in Ids(sessions') : sessions'[s].reservation_id = id}) <= 1
      ]_vars

\* Two reservations are checked in, one on its booked space and one on a space of
\* its zone, each with its own session, and a further check-in was refused.
C30_Witness ==
    /\ last.op = "check_in_reservation"
    /\ last.result = "validation_error"
    /\ Len(reservations) = 2
    /\ \A id \in Ids(reservations) :
            /\ reservations[id].status = "checked_in"
            /\ \E s \in Ids(sessions) : sessions[s].reservation_id = id
    /\ \E id \in Ids(reservations) : reservations[id].space_id = NONE

\* C31: create_entry gives the new session only a space whose status is
\* AVAILABLE and sets that space to OCCUPIED; when no space is AVAILABLE the
\* entry is accepted all the same (an entry is refused only for a vehicle that
\* already has an ACTIVE session), the session is created ACTIVE with
\* space_id = None and the status of no space changes.  In either case the
\* status of every other space is left as it was.
C31_EntryTakesAvailableSpace ==
    [][\A p \in Plates :
        CreateEntry(p) =>
            LET free == {s \in DOMAIN spaces : spaces[s].status = "available"}
                parked == vehicles[p] # NONE /\ ActiveSessionsOf(p) # {}
            IN  /\ (last'.result = "ok") <=> ~parked
                /\ last'.result = "ok" =>
                    LET session == sessions'[last'.id]
                    IN  /\ Len(sessions') = Len(sessions) + 1
                        /\ last'.id = Len(sessions')
                        /\ session.status = "active"
                        /\ session.exit_time = NoTime
                        /\ IF free = {}
                           THEN session.space_id = NONE /\ spaces' = spaces
                           ELSE /\ session.space_id \in free
                                /\ spaces' = [spaces EXCEPT
                                        ![session.space_id].status = "occupied"]
                /\ last'.result # "ok" => sessions' = sessions /\ spaces' = spaces
      ]_vars

\* An entry accepted while no space is AVAILABLE and one space is under
\* maintenance: the session has no space.
C31_Witness ==
    /\ last.op = "create_entry"
    /\ last.result = "ok"
    /\ sessions[last.id].space_id = NONE
    /\ \A s \in DOMAIN spaces : spaces[s].status # "available"
    /\ \E s \in DOMAIN spaces : spaces[s].status = "maintenance"

\* C32: cancel_reservation of a PENDING or CONFIRMED reservation sets its status
\* to CANCELLED and sets its space to AVAILABLE if and only if it names a space
\* whose status is RESERVED; a named space in any other status, every other
\* space, every other reservation and every session are left unchanged.
C32_CancelFrame ==
    [][\A id \in Ids(reservations) :
        (CancelReservation(id) /\ reservations[id].status \in {"pending", "confirmed"}) =>
            LET space_id == reservations[id].space_id
            IN  /\ last'.result = "ok"
                /\ reservations' = [reservations EXCEPT ![id].status = "cancelled"]
                /\ spaces' = IF space_id # NONE /\ spaces[space_id].status = "reserved"
                             THEN [spaces EXCEPT ![space_id].status = "available"]
                             ELSE spaces
                /\ sessions' = sessions
      ]_vars

\* A cancellation that left its space alone because the space was under
\* maintenance, while another booking stands.
C32_Witness ==
    /\ last.op = "cancel_reservation"
    /\ last.result = "ok"
    /\ reservations[last.id].status = "cancelled"
    /\ reservations[last.id].space_id # NONE
    /\ spaces[reservations[last.id].space_id].status = "maintenance"
    /\ \E i \in Ids(reservations) : reservations[i].status = "confirmed"

\* C33: no create_entry, create_reservation, check_in_reservation, assign_space,
\* process_exit or cancel_reservation assigns a session to a space whose status
\* is MAINTENANCE or OUT_OF_SERVICE, or changes the status of such a space; only
\* the administrative update_space moves a space into or out of these statuses.
C33_OutOfServiceSpacesUntouched ==
    [][last'.op # "update_space" =>
        \A s \in DOMAIN spaces :
            spaces[s].status \in {"maintenance", "out_of_service"} =>
                /\ spaces'[s].status = spaces[s].status
                /\ \A i \in Ids(sessions') :
                        sessions'[i].space_id = s =>
                            i \in Ids(sessions) /\ sessions[i].space_id = s
      ]_vars

\* C34: in every state reached by create_reservation and update_reservation
\* requests, every PENDING or CONFIRMED reservation has start_time < end_time.
\* (The other half of the claim, the refusal of a create_reservation whose window
\* is empty or starts in the past, holds of create_reservation.)
C34_StandingWindowsNotEmpty ==
    \A i \in Ids(reservations) :
        reservations[i].status \in {"pending", "confirmed"} =>
            reservations[i].start_time < reservations[i].end_time

\* C35: stop_charging applies a promo code only when validate_discount accepts
\* it, it is a PERCENTAGE code, the vehicle is an EV and the charging session is
\* linked to a parking session whose space is EV-charging-equipped; the discount
\* then covers at most the first 4 hours of charging and the rest of the time is
\* billed at the full per-kWh rate (the station's price, plus 0.25 for LEVEL2);
\* in every other case the cost is energy * rate with no discount.  Costs are
\* amounts in cents, as stop_charging stores and returns them.
C35_PromoOnlyForEvOnEvSpace ==
    [][\A id \in Ids(charging), p \in {"", "save", "FIX", "none"} :
        (StopCharging(id, p) /\ last'.result = "ok") =>
            LET session == charging[id]
                station == stations[session.station_id]
                minutes == now - session.start_time
                rate == station.price_per_kwh
                            + (IF station.charger_type = "level2" THEN 2500 ELSE 0)
                named == {i \in Ids(discounts) : discounts[i].code = Upper(p)}
                validates == p # "" /\ ValidateDiscount(p, FALSE, 0).is_valid
                percentage == \E i \in named : discounts[i].discount_type = "percentage"
                is_ev == session.vehicle_id \in EvVehicles
                on_ev_space ==
                    /\ session.parking_session_id \in Ids(sessions)
                    /\ sessions[session.parking_session_id].space_id # NONE
                    /\ spaces[sessions[session.parking_session_id].space_id].is_ev_charging
                discounted == Min2(minutes, 4 * 60)
                full == minutes - discounted
                percent_left == 100 - discounts[CHOOSE i \in named : TRUE].value
            IN  /\ charging'[id].cost = last'.amount
                /\ last'.amount =
                    IF validates /\ percentage /\ is_ev /\ on_ev_space
                    THEN RoundRatio((discounted * percent_left + full * 100)
                                        * station.power_kw * rate, 75 * 100 * 100) * 100
                    ELSE RoundRatio(minutes * station.power_kw * rate, 75 * 100) * 100
      ]_vars

\* A charging session of more than 4 hours stopped with the 50% code: it costs
\* less than the full price and more than half of it.
C35_Witness ==
    /\ last.op = "stop_charging"
    /\ last.result = "ok"
    /\ LET session == charging[last.id]
           station == stations[session.station_id]
           minutes == session.end_time - session.start_time
           full_cost == RoundRatio(minutes * station.power_kw
                            * (station.price_per_kwh + 2500), 75 * 100) * 100
       IN  /\ station.charger_type = "level2"
           /\ minutes > 4 * 60
           /\ session.cost < full_cost
           /\ 2 * session.cost > full_cost

\* C36: process_exit takes effect at most once per session: once it has recorded
\* exit_time for a session, a later process_exit for the same ticket or plate
\* does not change that exit_time and does not set to AVAILABLE a space that is
\* meanwhile held by another vehicle's session.
C36_ExitTakesEffectOnce ==
    [][\A id \in Ids(sessions) :
        (/\ sessions[id].exit_time # NoTime
         /\ (ProcessExit(id, NONE) \/ ProcessExit(NONE, sessions[id].vehicle_id))) =>
            /\ sessions'[id].exit_time = sessions[id].exit_time
            /\ \A s \in DOMAIN spaces :
                    (\E j \in Ids(sessions) :
                        /\ sessions[j].vehicle_id # sessions[id].vehicle_id
                        /\ sessions[j].space_id = s
                        /\ sessions[j].status = "active"
                        /\ sessions[j].exit_time = NoTime) =>
                    spaces'[s].status = spaces[s].status
      ]_vars

\* C37: in every state reached through create_entry, check_in_reservation,
\* assign_space, process_exit and complete_session, every space whose status is
\* OCCUPIED is the space_id of an ACTIVE session that has no exit_time.
C37_OccupiedSpacesAreHeld ==
    \A s \in DOMAIN spaces :
        spaces[s].status = "occupied" =>
            \E i \in Ids(sessions) :
                /\ sessions[i].space_id = s
                /\ sessions[i].status = "active"
                /\ sessions[i].exit_time = NoTime

\* C38: cancel_reservation sets a space to AVAILABLE only if no other PENDING or
\* CONFIRMED reservation names that space: cancelling one of several standing
\* reservations of a space does not release it to drive-in entries.
C38_CancelKeepsSharedSpace ==
    [][\A id \in Ids(reservations) :
        CancelReservation(id) =>
            \A s \in DOMAIN spaces :
                (spaces[s].status # "available" /\ spaces'[s].status = "available") =>
                    ~ \E j \in Ids(reservations) \ {id} :
                        /\ reservations[j].space_id = s
                        /\ reservations[j].status \in {"pending", "confirmed"}
      ]_vars

\* C39: if check_availability(start, end, zone) lists a space, with start < end
\* and start not in the past, then a create_reservation for that space and the
\* same window issued right after it, with no request in between, is accepted:
\* check_availability changes nothing in the store, and in every state a
\* create_reservation for a space the query lists for the window is accepted,
\* the new reservation being the only row added.
C39_ListedSpaceCanBeBooked ==
    [][/\ \A s \in Moments, e \in Moments, zone_id \in {NONE, 1} :
            CheckAvailability(s, e, zone_id) =>
                /\ UNCHANGED <<store, now>>
                /\ last'.available_spaces = FreeSpaces(s, e, zone_id)
       /\ \A v \in Registered, sp \in SpaceIds, s \in Moments, e \in Moments :
            (/\ CreateReservation(v, sp, NONE, s, e)
             /\ s < e
             /\ s >= now
             /\ \E zone_id \in {NONE, 1} : sp \in FreeSpaces(s, e, zone_id)) =>
                /\ last'.result = "ok"
                /\ Len(reservations') = Len(reservations) + 1
                /\ reservations'[last'.id].space_id = sp
                /\ reservations'[last'.id].start_time = s
                /\ reservations'[last'.id].end_time = e
      ]_vars

\* A booking accepted for a space that check_availability listed although
\* another reservation of the space stands: the two windows touch.
C39_Witness ==
    /\ last.op = "create_reservation"
    /\ last.result = "ok"
    /\ \E j \in Ids(reservations) \ {last.id} :
        /\ reservations[j].space_id = reservations[last.id].space_id
        /\ reservations[j].status \in {"pending", "confirmed"}
        /\ reservations[j].end_time = reservations[last.id].start_time

\* C40: for every result of calculate_fee (grace period, plain hourly, peak
\* surcharge, single-day cap, multi-day cap with or without a remainder) the
\* amounts of the breakdown line items sum to the total before its rounding to
\* cents (so the sum, rounded to cents, is the total returned), and the total is
\* never negative.
C40_BreakdownSumsToTotal ==
    (last.op = "calculate_fee" /\ last.result = "ok") =>
        LET breakdown == last.fee.breakdown
            sum == IF Len(breakdown) = 1 THEN breakdown[1].amount
                   ELSE breakdown[1].amount + breakdown[2].amount
        IN  /\ Len(breakdown) \in {1, 2}
            /\ Round2(sum) = last.fee.total
            /\ last.fee.total >= 0

\* A fee of two line items: the hours at the base rate and a peak surcharge.
C40_Witness ==
    /\ last.op = "calculate_fee"
    /\ last.result = "ok"
    /\ Len(last.fee.breakdown) = 2
    /\ last.fee.breakdown[2].description = "Peak hour surcharge"
    /\ last.fee.breakdown[2].amount > 0
    /\ last.fee.total = last.fee.breakdown[1].amount + last.fee.breakdown[2].amount

====
